---- MODULE Spec2Model ----
(***************************************************************************)
(* Clear Voice Studio: the useTranscribe hook (both capture strategies),   *)
(* the Whisper worker it talks to, and the model-status presentation.      *)
(*                                                                         *)
(*   variant = "blob"   src/src/hooks/useTranscribe.ts  (MediaRecorder,    *)
(*                      one encoded blob decoded at stop time)             *)
(*   variant = "stream" src/unnamed/part_002            (ScriptProcessor,  *)
(*                      fixed-duration chunks flushed while recording)     *)
(*                                                                         *)
(* Strings that the code concatenates or trims are sequences of one-       *)
(* character strings.  Every chunk handed to processAudio /                *)
(* normalizeAndSendAudio gets the next index of `chunks`; the engine's     *)
(* text for chunk c is built from the digit of c, so that the transcript   *)
(* shows which results it holds and in which order.                        *)
(***************************************************************************)
EXTENDS Integers, Sequences, FiniteSets, TLC

\* ------------------------------------------------------------------ bounds
MaxSessions == 2
MaxFrames == 3
MaxPendingReports == 1
MaxSamples == 2
SampleSteps == 3
MaxTokens == 3

\* ------------------------------------------------------- program constants
CHUNK_DURATION_SEC == 4
ScriptBufferSize == 4096
SampleRates == {2048}
DownloadReports == {0, 424, 995}

Null == "null"
Undefined == "undefined"
MicError == "Could not access microphone"
DecodeErrorMsg == "Failed to process audio data"
WorkerErrorFallback == "Worker error occurred"
\* What the catch blocks of the worker can be handed: an Error with a
\* message, an Error whose message is empty, a thrown value that has no
\* message property (Undefined), and a thrown null or undefined (Nullish),
\* on which reading .message throws inside the catch.
Nullish == "nullish"
LoadReasons == {"fetch failed", "", Undefined, Nullish}
InferReasons == {"inference failed", "", Undefined, Nullish}

\* --------------------------------------------------------------- strings
Digits == <<"1", "2", "3", "4", "5", "6", "7", "8", "9">>

\* What String.prototype.trim strips and the regular expression class \s
\* matches: the WhiteSpace and LineTerminator code points.  In order: space,
\* tab, line feed, carriage return, form feed, vertical tab (U+000B),
\* no-break space (U+00A0), byte order mark (U+FEFF) and ogham space mark
\* (U+1680).  The remaining members (U+2000..U+200A, U+2028, U+2029, U+202F,
\* U+205F, U+3000) cannot be written in a string of this language, so no
\* text of the model contains them.
Whitespace == {" ", "\t", "\n", "\r", "\f", "", " ", "﻿", " "}

\* String.prototype.trimStart / trimEnd / trim
RECURSIVE TrimStart(_)
TrimStart(s) ==
    IF s # <<>> /\ Head(s) \in Whitespace THEN TrimStart(Tail(s)) ELSE s

RECURSIVE TrimEnd(_)
TrimEnd(s) ==
    IF s # <<>> /\ s[Len(s)] \in Whitespace
    THEN TrimEnd(SubSeq(s, 1, Len(s) - 1)) ELSE s

Trim(s) == TrimEnd(TrimStart(s))

RECURSIVE JoinSpace(_)
JoinSpace(ss) ==
    IF ss = <<>> THEN <<>>
    ELSE IF Len(ss) = 1 THEN ss[1]
    ELSE ss[1] \o <<" ">> \o JoinSpace(Tail(ss))

MathRound(tenths) == (tenths + 5) \div 10

\* What the engine can return for chunk c: an object with a text (Whisper
\* prefixes a space), an object with an empty text (silence), or an array of
\* segments.
EngineOutputs(c) ==
    { [kind |-> "obj", text |-> <<" ", Digits[c]>>, segs |-> <<>>],
      [kind |-> "obj", text |-> <<>>, segs |-> <<>>],
      [kind |-> "arr", text |-> <<>>, segs |-> << <<Digits[c]>>, <<Digits[c]>> >>] }

NoData == [kind |-> "none", text |-> <<>>, segs |-> <<>>]

VARIABLES
    variant,          \* which hook is mounted
    mounted,          \* the component using the hook is mounted
    isModelLoading, isModelLoaded, isRecording, isTranscribing,
    transcription, progress, error, audioStream,
    workerRef,        \* workerRef.current # null
    handle,           \* mediaRecorderRef.current / mediaStreamRef.current (0 = null)
    scriptNodeRef,    \* stream: the session whose script node, source and context
                      \* scriptNodeRef, sourceRef and audioContextRef hold (0 = null)
    audioBufferRef,   \* stream: samples held, as the sequence of captured frames
    chunksRef,        \* blob: the Blob parts pushed by ondataavailable
    sessions,         \* one record per startRecording invocation
    chunks,           \* one record per processAudio / normalizeAndSendAudio call
    pipelineState,    \* worker: PipelineSingleton.instance and its construction
    fromWorker,       \* worker -> hook messages not yet handled
    frameCount,       \* frames captured so far
    audioData,        \* normalization: the samples passed in, in steps of 1/SampleSteps
    normalized,       \* normalization: what it returned
    sentAudio,        \* normalization: the audio of the transcribe messages posted
    rawText,          \* correction engine: the text passed to applyCorrections
    correction,       \* correction engine: what it returned
    wiring,           \* which DictationProcessor uses the hook ("none": no one)
    inputText,        \* DictationProcessor: the text shown in the input
    rendered          \* DictationProcessor: `transcription` of the last render

hookVars == <<isModelLoading, isModelLoaded, isRecording, isTranscribing,
              transcription, progress, error, audioStream>>
refVars == <<workerRef, handle, scriptNodeRef, audioBufferRef, chunksRef>>
workerVars == <<pipelineState, fromWorker>>
dspVars == <<audioData, normalized, sentAudio>>
engineVars == <<rawText, correction>>
uiVars == <<wiring, inputText, rendered>>
vars == <<variant, mounted, hookVars, refVars, sessions, chunks, workerVars, frameCount,
          dspVars, engineVars, uiVars>>

\* ------------------------------------------------------------------ Init
\* The state after the first render and its effect: the worker exists,
\* isModelLoading was set and configure was posted, so the worker is
\* constructing the pipeline.
InitHook ==
    /\ variant \in {"blob", "stream"}
    /\ mounted = TRUE
    /\ isModelLoading = TRUE
    /\ isModelLoaded = FALSE
    /\ isRecording = FALSE
    /\ isTranscribing = FALSE
    /\ transcription = <<>>
    /\ progress = 0
    /\ error = Null
    /\ audioStream = 0
    /\ workerRef = TRUE
    /\ handle = 0
    /\ scriptNodeRef = 0
    /\ audioBufferRef = <<>>
    /\ chunksRef = <<>>
    /\ sessions = <<>>
    /\ chunks = <<>>
    /\ pipelineState = "constructing"
    /\ fromWorker = <<>>
    /\ frameCount = 0

\* Nothing has been normalized yet.
NotRun ==
    [ran |-> FALSE, peak |-> <<0, 1>>, gain |-> <<1, 1>>, data |-> <<>>,
     flagged |-> FALSE]

\* applyCorrections has not been called.
NotCorrected ==
    [ran |-> FALSE, result |-> [original |-> <<>>, corrected |-> <<>>, changes |-> <<>>]]

Init ==
    /\ InitHook
    /\ audioData = <<>>
    /\ normalized = NotRun
    /\ sentAudio = <<>>
    /\ rawText = <<>>
    /\ correction = NotCorrected
    /\ wiring = "none"
    /\ inputText = <<>>
    /\ rendered = <<>>

\* Setters of React state do nothing once the component is unmounted.
St(old, new) == IF mounted THEN new ELSE old

Msg(t) == [type |-> t, status |-> "", progress |-> 0, reason |-> "",
           out |-> NoData, chunk |-> 0]

ChunkIds == 1..Len(chunks)
SessionIds == 1..Len(sessions)
MicLive(s) == sessions[s].phase \in {"live", "stopping", "open"}
Outstanding == {c \in ChunkIds : chunks[c].fate \in {"posted", "answered", "dropped"}}

\* ---------------------------------------------------------------- worker
\* Progress reports the hook has not handled yet.
PendingReports == Len(SelectSeq(fromWorker, LAMBDA m : m.type = "download"))

\* worker.ts 32-37: the progress callback forwards every engine report, any
\* number of them while the pipeline is being constructed.
WorkerDownload(st, p) ==
    /\ workerRef
    /\ pipelineState = "constructing"
    /\ PendingReports < MaxPendingReports
    /\ fromWorker' = Append(fromWorker,
            [Msg("download") EXCEPT !.status = st, !.progress = p])
    /\ UNCHANGED <<dspVars, engineVars, uiVars, variant, mounted, hookVars, refVars, sessions, chunks,
                   pipelineState,
                   frameCount>>

\* worker.ts 38-39
WorkerReady ==
    /\ workerRef
    /\ pipelineState = "constructing"
    /\ pipelineState' = "loaded"
    /\ fromWorker' = Append(fromWorker, Msg("ready"))
    /\ UNCHANGED <<dspVars, engineVars, uiVars, variant, mounted, hookVars, refVars, sessions, chunks,
                   frameCount>>

\* worker.ts 40-43: (error as Error).message is undefined when the thrown
\* value is not an Error; when the thrown value is null or undefined the
\* read throws, the listener's promise rejects and nothing is posted.
WorkerLoadError(r) ==
    /\ workerRef
    /\ pipelineState = "constructing"
    /\ pipelineState' = "failed"
    /\ fromWorker' = IF r = Nullish THEN fromWorker
                     ELSE Append(fromWorker, [Msg("error") EXCEPT !.reason = r])
    /\ UNCHANGED <<dspVars, engineVars, uiVars, variant, mounted, hookVars, refVars, sessions, chunks,
                   frameCount>>

\* worker.ts 51-68: any request whose inference is running may finish next.
WorkerComplete(c, o) ==
    /\ workerRef
    /\ pipelineState = "loaded"
    /\ chunks[c].fate = "posted"
    /\ chunks' = [chunks EXCEPT ![c].fate = "answered"]
    /\ fromWorker' = Append(fromWorker,
            [Msg("complete") EXCEPT !.out = o, !.chunk = c])
    /\ UNCHANGED <<dspVars, engineVars, uiVars, variant, mounted, hookVars, refVars, sessions,
                   pipelineState,
                   frameCount>>

\* worker.ts 69-72: as in the configure branch, a thrown null or undefined
\* makes the catch itself throw; the request is dropped without an answer.
WorkerInferenceError(c, r) ==
    /\ workerRef
    /\ pipelineState = "loaded"
    /\ chunks[c].fate = "posted"
    /\ chunks' = [chunks EXCEPT ![c].fate = IF r = Nullish THEN "dropped" ELSE "answered"]
    /\ fromWorker' = IF r = Nullish THEN fromWorker
                     ELSE Append(fromWorker,
                                 [Msg("error") EXCEPT !.reason = r, !.chunk = c])
    /\ UNCHANGED <<dspVars, engineVars, uiVars, variant, mounted, hookVars, refVars, sessions,
                   pipelineState,
                   frameCount>>

\* ------------------------------------------------------ hook: onmessage
\* case 'download'
OnDownload ==
    /\ mounted /\ fromWorker # <<>>
    /\ Head(fromWorker).type = "download"
    /\ LET m == Head(fromWorker) IN
         progress' = IF m.status = "progress" /\ m.progress # 0
                     THEN MathRound(m.progress) ELSE progress
    /\ fromWorker' = Tail(fromWorker)
    /\ UNCHANGED <<dspVars, engineVars, uiVars, variant, mounted, isModelLoading, isModelLoaded, isRecording,
                   isTranscribing, transcription, error, audioStream, refVars,
                   sessions, chunks, pipelineState,
                   frameCount>>

\* Mutant of OnReady: the progress is left where the last report put it.
OnReadyKeepsProgress ==
    /\ mounted /\ fromWorker # <<>>
    /\ Head(fromWorker).type = "ready"
    /\ isModelLoading' = FALSE
    /\ isModelLoaded' = TRUE
    /\ progress' = progress
    /\ fromWorker' = Tail(fromWorker)
    /\ UNCHANGED <<dspVars, engineVars, uiVars, variant, mounted, isRecording, isTranscribing, transcription,
                   error, audioStream, refVars, sessions, chunks, pipelineState,
                   frameCount>>

\* case 'ready'
OnReady ==
    /\ mounted /\ fromWorker # <<>>
    /\ Head(fromWorker).type = "ready"
    /\ isModelLoading' = FALSE
    /\ isModelLoaded' = TRUE
    /\ progress' = 100
    /\ fromWorker' = Tail(fromWorker)
    /\ UNCHANGED <<dspVars, engineVars, uiVars, variant, mounted, isRecording, isTranscribing, transcription,
                   error, audioStream, refVars, sessions, chunks, pipelineState,
                   frameCount>>

\* The text the 'complete' case extracts; <<FALSE, _>> when neither branch
\* of the handler applies.
ExtractText(o) ==
    IF o.kind = "obj" /\ o.text # <<>> THEN <<TRUE, Trim(o.text)>>
    ELSE IF o.kind = "arr" THEN <<TRUE, Trim(JoinSpace(o.segs))>>
    ELSE <<FALSE, <<>> >>

\* useTranscribe.ts 83-86: append after one space when prev is non-empty.
AppendText(prev, text) ==
    prev \o (IF prev # <<>> THEN <<" ">> ELSE <<>>) \o text

\* part_002 89: the streaming hook replaces the transcript.
ReplaceText(prev, text) == text

MergeText(prev, text) ==
    IF variant = "blob" THEN AppendText(prev, text) ELSE ReplaceText(prev, text)

\* The body of the effect that syncs the transcript into the input:
\*   part_004 27-32          if (transcription) setInputText(transcription)
\*   ModelStatus.tsx 74-82   if (transcription) setInputText(prev => trimmed
\*                             ? `${trimmed} ${transcription}` : transcription)
SyncInput(prev, new) ==
    IF new = <<>> THEN prev
    ELSE IF wiring = "replace" THEN new
    ELSE IF Trim(prev) # <<>> THEN Trim(prev) \o <<" ">> \o new
    ELSE new

\* case 'complete'.  The handler only queues the new transcript; the
\* DictationProcessor sees it at its next render (SyncEffect).
OnComplete ==
    /\ mounted /\ fromWorker # <<>>
    /\ Head(fromWorker).type = "complete"
    /\ LET m == Head(fromWorker)
           x == ExtractText(m.out)
       IN /\ isTranscribing' = FALSE
          /\ transcription' = IF x[1] THEN MergeText(transcription, x[2])
                              ELSE transcription
          /\ chunks' = [chunks EXCEPT ![m.chunk].fate =
                                 IF x[1] THEN "completed" ELSE "silent"]
    /\ fromWorker' = Tail(fromWorker)
    /\ UNCHANGED <<dspVars, engineVars, uiVars, variant, mounted, isModelLoading, isModelLoaded, isRecording,
                   progress, error, audioStream, refVars, sessions,
                   pipelineState,
                   frameCount>>

\* setError(typeof data === 'string' ? data : 'Worker error occurred')
ErrorText(data) == IF data = Undefined THEN WorkerErrorFallback ELSE data

\* Mutant of OnError: every error is taken for a failure of the model.
OnErrorUnloadsModel ==
    /\ mounted /\ fromWorker # <<>>
    /\ Head(fromWorker).type = "error"
    /\ LET m == Head(fromWorker) IN
          /\ isModelLoading' = FALSE
          /\ isModelLoaded' = FALSE
          /\ isTranscribing' = FALSE
          /\ error' = ErrorText(m.reason)
          /\ chunks' = IF m.chunk = 0 THEN chunks
                       ELSE [chunks EXCEPT ![m.chunk].fate = "errored"]
    /\ fromWorker' = Tail(fromWorker)
    /\ UNCHANGED <<dspVars, engineVars, uiVars, variant, mounted, isRecording, transcription,
                   progress, audioStream, refVars, sessions, pipelineState,
                   frameCount>>

\* Mutant of OnError: the busy indicator is left as it is.
OnErrorStaysBusy ==
    /\ mounted /\ fromWorker # <<>>
    /\ Head(fromWorker).type = "error"
    /\ LET m == Head(fromWorker) IN
          /\ isModelLoading' = FALSE
          /\ isTranscribing' = isTranscribing
          /\ error' = ErrorText(m.reason)
          /\ chunks' = IF m.chunk = 0 THEN chunks
                       ELSE [chunks EXCEPT ![m.chunk].fate = "errored"]
    /\ fromWorker' = Tail(fromWorker)
    /\ UNCHANGED <<dspVars, engineVars, uiVars, variant, mounted, isModelLoaded, isRecording, transcription,
                   progress, audioStream, refVars, sessions, pipelineState,
                   frameCount>>

\* case 'error': the same handler serves configure and transcribe failures.
OnError ==
    /\ mounted /\ fromWorker # <<>>
    /\ Head(fromWorker).type = "error"
    /\ LET m == Head(fromWorker) IN
          /\ isModelLoading' = FALSE
          /\ isTranscribing' = FALSE
          /\ error' = ErrorText(m.reason)
          /\ chunks' = IF m.chunk = 0 THEN chunks
                       ELSE [chunks EXCEPT ![m.chunk].fate = "errored"]
    /\ fromWorker' = Tail(fromWorker)
    /\ UNCHANGED <<dspVars, engineVars, uiVars, variant, mounted, isModelLoaded, isRecording, transcription,
                   progress, audioStream, refVars, sessions, pipelineState,
                   frameCount>>

\* -------------------------------------------------------- hook: capture
\* Mutant of GuardPasses: only the worker handle is tested.
GuardIgnoresLoaded(loaded) == workerRef

\* The first lines of processAudio / normalizeAndSendAudio:
\*   if (!workerRef.current || !isModelLoaded) return;
\* `loaded` is the isModelLoaded of the render whose closure makes the call.
GuardPasses(loaded) == workerRef /\ loaded

\* The record of one call of processAudio / normalizeAndSendAudio.
\*   fate      notReady  the guard returned early (the chunk is gone)
\*             decoding  awaiting decodeAudioData / startRendering
\*             failed    decoding or posting threw
\*             posted    transcribe posted, the worker has not answered
\*             answered  the worker's reply is on its way to the hook
\*             dropped   the inference failed and the worker posted no reply
\*             completed the hook handled complete and merged its text
\*             silent    the hook handled complete and found no text in it
\*             errored   the hook handled error
\*             cleared   completed or silent, and the transcript was emptied since
\*             lost      the worker was terminated before the reply arrived
\*   micLive   the session's tracks were not yet stopped at the call
\*   loading   configure sent and ready not yet observed at the call
\*   startLoaded  isModelLoaded of the render whose startRecording began the
\*             session
\*   afterErr  an earlier chunk of the session had been answered with error
HandOff(s, audio, loaded, isFinal) ==
    [session |-> s,
     audio |-> audio,
     fate |-> IF GuardPasses(loaded) THEN "decoding" ELSE "notReady",
     final |-> isFinal,
     micLive |-> MicLive(s),
     loading |-> mounted /\ isModelLoading /\ ~isModelLoaded,
     startLoaded |-> sessions[s].cbLoaded,
     afterErr |-> \E c \in ChunkIds :
                     chunks[c].session = s /\ chunks[c].fate = "errored"]

\* Bookkeeping for setTranscription(''): the results merged so far are no
\* longer part of the transcript.
Emptied ==
    [c \in ChunkIds |->
        IF chunks[c].fate \in {"completed", "silent"}
        THEN [chunks[c] EXCEPT !.fate = "cleared"] ELSE chunks[c]]

\* The record of one call of startRecording.
\*   cbLoaded    isModelLoaded of the render whose closure the callbacks hold
\*   rate        context.sampleRate (stream)
\*   rec         what the MediaRecorder holds (blob)
\*   fresh       stopRecording had been called for every earlier session
\*               (blob)
\*   erased      the call emptied a non-empty transcript
NewSession ==
    [phase |-> "awaiting", cbLoaded |-> isModelLoaded, rate |-> 0, rec |-> <<>>,
     fresh |-> /\ variant = "blob"
               /\ \A s \in SessionIds : sessions[s].phase \notin {"awaiting", "live"},
     erased |-> variant = "stream" /\ transcription # <<>>]

\* A session that is over: its callbacks and closures are unreachable.
Ended(how) ==
    [phase |-> how, cbLoaded |-> FALSE, rate |-> 0, rec |-> <<>>,
     fresh |-> FALSE, erased |-> FALSE]

\* startRecording up to `await getUserMedia`.  A DictationProcessor calls it
\* from toggleRecording (ModelStatus.tsx 84-90, part_004 34-40), which calls
\* stopRecording instead when isRecording is set.  The callbacks the session
\* installs later close over the processAudio / normalizeAndSendAudio of this
\* render, hence over this render's isModelLoaded.
StartRecording ==
    /\ mounted
    /\ wiring # "none" => ~isRecording
    /\ Len(sessions) < MaxSessions
    /\ sessions' = Append(sessions, NewSession)
    /\ error' = Null
    /\ transcription' = IF variant = "stream" THEN <<>> ELSE transcription
    /\ audioBufferRef' = IF variant = "stream" THEN <<>> ELSE audioBufferRef
    /\ chunks' = IF variant = "stream" THEN Emptied ELSE chunks
    /\ UNCHANGED <<dspVars, engineVars, uiVars, variant, mounted, isModelLoading, isModelLoaded, isRecording,
                   isTranscribing, progress, audioStream, workerRef, handle, scriptNodeRef,
                   chunksRef, workerVars,
                   frameCount>>

\* getUserMedia resolved: the rest of the try block.
MicGranted(s, r) ==
    /\ sessions[s].phase = "awaiting"
    /\ sessions' = [sessions EXCEPT ![s].phase = "live",
                                     ![s].rate = IF variant = "stream" THEN r ELSE 0]
    /\ handle' = s
    /\ scriptNodeRef' = IF variant = "stream" THEN s ELSE scriptNodeRef
    /\ audioStream' = St(audioStream, s)
    /\ isRecording' = St(isRecording, TRUE)
    /\ chunksRef' = IF variant = "blob" THEN <<>> ELSE chunksRef
    /\ UNCHANGED <<dspVars, engineVars, uiVars, variant, mounted, isModelLoading, isModelLoaded,
                   isTranscribing, transcription, progress, error, workerRef,
                   audioBufferRef, chunks, workerVars,
                   frameCount>>

\* getUserMedia resolved and a later statement of the try block threw: the
\* catch block runs with the stream already exposed and nothing stopping its
\* tracks.
\*   blob    "construct"  new MediaRecorder(stream, {mimeType}) threw
\*           "start"      mediaRecorderRef.current.start() threw; the ref
\*                        holds the new, inactive recorder
\*   stream  "construct"  new AudioContext(), createMediaStreamSource or
\*                        createScriptProcessor threw; mediaStreamRef.current
\*                        holds the stream, scriptNodeRef.current what it held
MicSetupFails(s, stage) ==
    /\ sessions[s].phase = "awaiting"
    /\ variant = "stream" => stage = "construct"
    /\ sessions' = [sessions EXCEPT ![s].phase = "open"]
    /\ handle' = IF variant = "stream" \/ stage = "start" THEN s ELSE handle
    /\ chunksRef' = IF variant = "blob" /\ stage = "start" THEN <<>> ELSE chunksRef
    /\ audioStream' = St(audioStream, s)
    /\ error' = St(error, MicError)
    /\ UNCHANGED <<dspVars, engineVars, uiVars, variant, mounted, isModelLoading, isModelLoaded,
                   isRecording, isTranscribing, transcription, progress, workerRef,
                   scriptNodeRef, audioBufferRef, chunks, workerVars, frameCount>>

\* getUserMedia rejected: the catch block.
MicDenied(s) ==
    /\ sessions[s].phase = "awaiting"
    /\ sessions' = [sessions EXCEPT ![s] = Ended("denied")]
    /\ error' = St(error, MicError)
    /\ UNCHANGED <<dspVars, engineVars, uiVars, variant, mounted, isModelLoading, isModelLoaded, isRecording,
                   isTranscribing, transcription, progress, audioStream, refVars,
                   chunks, workerVars,
                   frameCount>>

\* const threshold = context.sampleRate * CHUNK_DURATION_SEC
Threshold(rate) == rate * CHUNK_DURATION_SEC
Samples(buf) == Len(buf) * ScriptBufferSize
ShouldFlush(buf, rate) == Samples(buf) >= Threshold(rate)

\* part_002 197-215: scriptNode.onaudioprocess of session s.  Frames are
\* numbered in the order of capture.
OnAudioProcess(s) ==
    /\ variant = "stream"
    /\ sessions[s].phase = "live"
    /\ frameCount < MaxFrames
    /\ frameCount' = frameCount + 1
    /\ LET newBuffer == Append(audioBufferRef, frameCount + 1) IN
         IF ShouldFlush(newBuffer, sessions[s].rate)
         THEN /\ audioBufferRef' = <<>>
              /\ chunks' = Append(chunks,
                     HandOff(s, newBuffer, sessions[s].cbLoaded, FALSE))
         ELSE /\ audioBufferRef' = newBuffer
              /\ chunks' = chunks
    /\ UNCHANGED <<dspVars, engineVars, uiVars, variant, mounted, hookVars, workerRef, handle, scriptNodeRef, chunksRef,
                   sessions, workerVars>>

\* The MediaRecorder of session s has recorded audio: the single Blob it will
\* deliver at stop (start() is called without a timeslice) is no longer empty.
\* The part is opaque to the hook; it is tagged with its session.
RecorderCaptures(s) ==
    /\ variant = "blob"
    /\ sessions[s].phase = "live"
    /\ sessions[s].rec = <<>>
    /\ sessions' = [sessions EXCEPT ![s].rec = <<s>>]
    /\ UNCHANGED <<dspVars, engineVars, uiVars, variant, mounted, hookVars, refVars, chunks, workerVars,
                   frameCount>>

\* useTranscribe.ts 235-240
StopRecordingBlob ==
    /\ mounted
    /\ wiring # "none" => isRecording
    /\ variant = "blob"
    /\ handle # 0
    /\ sessions[handle].phase = "live"
    /\ sessions' = [sessions EXCEPT ![handle].phase = "stopping"]
    /\ isRecording' = FALSE
    /\ UNCHANGED <<dspVars, engineVars, uiVars, variant, mounted, isModelLoading, isModelLoaded,
                   isTranscribing, transcription, progress, error, audioStream,
                   refVars, chunks, workerVars,
                   frameCount>>

RECURSIVE Concat(_)
Concat(parts) ==
    IF parts = <<>> THEN <<>> ELSE Head(parts) \o Concat(Tail(parts))

\* The recorder's stop task: ondataavailable (209-213), then onstop (215-223):
\* the blob is handed to processAudio, then the tracks are stopped.
RecorderStopped(s) ==
    /\ variant = "blob"
    /\ sessions[s].phase = "stopping"
    /\ LET parts == IF sessions[s].rec # <<>>
                    THEN Append(chunksRef, sessions[s].rec) ELSE chunksRef
           c == HandOff(s, Concat(parts), sessions[s].cbLoaded, TRUE)
       IN /\ chunksRef' = parts
          /\ chunks' = Append(chunks, c)
          /\ isTranscribing' = IF c.fate = "decoding"
                               THEN St(isTranscribing, TRUE) ELSE isTranscribing
    /\ sessions' = [sessions EXCEPT ![s] = Ended("released")]
    /\ audioStream' = St(audioStream, 0)
    /\ UNCHANGED <<dspVars, engineVars, uiVars, variant, mounted, isModelLoading, isModelLoaded, isRecording,
                   transcription, progress, error, workerRef, handle, scriptNodeRef,
                   audioBufferRef, workerVars,
                   frameCount>>

\* Mutant of StopRecordingStream: the partial buffer is discarded at stop.
StopRecordingStreamNoFlush ==
    /\ mounted
    /\ wiring # "none" => isRecording
    /\ variant = "stream"
    /\ handle # 0
    /\ chunks' = chunks
    /\ audioBufferRef' = <<>>
    /\ LET others == IF scriptNodeRef \in {0, handle} THEN sessions
                      ELSE [sessions EXCEPT ![scriptNodeRef].phase = "open",
                                            ![scriptNodeRef].rate = 0]
       IN sessions' = [others EXCEPT ![handle] = Ended("released")]
    /\ scriptNodeRef' = 0
    /\ handle' = 0
    /\ audioStream' = 0
    /\ isRecording' = FALSE
    /\ UNCHANGED <<dspVars, engineVars, uiVars, variant, mounted, isModelLoading, isModelLoaded,
                   isTranscribing, transcription, progress, error, workerRef,
                   chunksRef, workerVars, frameCount>>

\* Mutant of StopRecordingStream: mediaStreamRef keeps the stopped stream.
StopRecordingStreamKeepsRef ==
    /\ mounted
    /\ wiring # "none" => isRecording
    /\ variant = "stream"
    /\ handle # 0
    /\ chunks' = IF audioBufferRef # <<>>
                 THEN Append(chunks,
                        HandOff(handle, audioBufferRef, isModelLoaded, TRUE))
                 ELSE chunks
    /\ audioBufferRef' = <<>>
    /\ LET others == IF scriptNodeRef \in {0, handle} THEN sessions
                      ELSE [sessions EXCEPT ![scriptNodeRef].phase = "open",
                                            ![scriptNodeRef].rate = 0]
       IN sessions' = [others EXCEPT ![handle] = Ended("released")]
    /\ scriptNodeRef' = 0
    /\ handle' = handle
    /\ audioStream' = 0
    /\ isRecording' = FALSE
    /\ UNCHANGED <<dspVars, engineVars, uiVars, variant, mounted, isModelLoading, isModelLoaded,
                   isTranscribing, transcription, progress, error, workerRef,
                   chunksRef, workerVars,
                   frameCount>>

\* part_002 230-256: flush what the buffer holds, stop the tracks of the
\* stream in mediaStreamRef, then disconnect the nodes and close the context
\* the other refs hold.  When those belong to another session (the setup of
\* the handle's session threw before it replaced them), that session keeps
\* its tracks but gets no more audio.
StopRecordingStream ==
    /\ mounted
    /\ wiring # "none" => isRecording
    /\ variant = "stream"
    /\ handle # 0
    /\ chunks' = IF audioBufferRef # <<>>
                 THEN Append(chunks,
                        HandOff(handle, audioBufferRef, isModelLoaded, TRUE))
                 ELSE chunks
    /\ audioBufferRef' = <<>>
    /\ LET others == IF scriptNodeRef \in {0, handle} THEN sessions
                      ELSE [sessions EXCEPT ![scriptNodeRef].phase = "open",
                                            ![scriptNodeRef].rate = 0]
       IN sessions' = [others EXCEPT ![handle] = Ended("released")]
    /\ scriptNodeRef' = 0
    /\ handle' = 0
    /\ audioStream' = 0
    /\ isRecording' = FALSE
    /\ UNCHANGED <<dspVars, engineVars, uiVars, variant, mounted, isModelLoading, isModelLoaded,
                   isTranscribing, transcription, progress, error, workerRef,
                   chunksRef, workerVars,
                   frameCount>>

\* ----------------------------------------------------------- normalization
\* Sample values, peaks and gains are exact fractions <<numerator,
\* denominator>> with a positive denominator; a sample k of audioData stands
\* for k / SampleSteps.  Rounding to 32-bit floats is not modelled.
Sample(k) == <<k, SampleSteps>>
Abs(n) == IF n < 0 THEN -n ELSE n
RatAbs(a) == <<Abs(a[1]), a[2]>>
RatMul(a, b) == <<a[1] * b[1], a[2] * b[2]>>
RatDiv(a, b) == <<a[1] * b[2], a[2] * b[1]>>
RatEq(a, b) == a[1] * b[2] = b[1] * a[2]
RatLess(a, b) == a[1] * b[2] < b[1] * a[2]

\* const targetLevel = 0.95
targetLevel == <<95, 100>>

\* The peak loop: the largest |audioData[i]|, 0 when there are no samples.
RECURSIVE Peak(_)
Peak(buf) ==
    IF buf = <<>> THEN 0
    ELSE LET p == Peak(Tail(buf))
             a == Abs(Head(buf))
         IN IF a > p THEN a ELSE p

\* Mutant of Gain: normalization to full scale.
GainFullScale(peak) == RatDiv(<<1, 1>>, peak)

\* gain = targetLevel / peak
Gain(peak) == RatDiv(targetLevel, peak)

\* useTranscribe.ts 115-145: a zero peak returns the samples as they are,
\* after the log entry 'Audio peak is zero or invalid.' (flagged).
normalizeAudio(buf) ==
    LET peak == Sample(Peak(buf)) IN
      IF peak[1] = 0
      THEN [ran |-> TRUE, peak |-> peak, gain |-> <<1, 1>>,
            data |-> [i \in 1..Len(buf) |-> Sample(buf[i])],
            flagged |-> TRUE]
      ELSE [ran |-> TRUE, peak |-> peak, gain |-> Gain(peak),
            data |-> [i \in 1..Len(buf) |-> RatMul(Sample(buf[i]), Gain(peak))],
            flagged |-> FALSE]

\* part_002 141-156: the gain stays 1.0 unless the peak is positive, and is
\* applied in either case.  Nothing is logged or recorded for a zero peak.
normalizeResampled(buf) ==
    LET peak == Sample(Peak(buf))
        gain == IF peak[1] > 0 THEN Gain(peak) ELSE <<1, 1>>
    IN [ran |-> TRUE, peak |-> peak, gain |-> gain,
        data |-> [i \in 1..Len(buf) |-> RatMul(Sample(buf[i]), gain)],
        flagged |-> FALSE]

RECURSIVE SeqsUpTo(_, _)
SeqsUpTo(S, n) ==
    IF n = 0 THEN {<<>>}
    ELSE LET shorter == SeqsUpTo(S, n - 1) IN
           shorter \cup {Append(q, x) : q \in shorter, x \in S}

\* The buffers normalization is applied to.
Buffers == SeqsUpTo((-SampleSteps)..SampleSteps, MaxSamples)

\* workerRef.current.postMessage({ type: 'transcribe', audio, language })
PostTranscribe(outbox, n) == Append(outbox, n.data)

\* The awaited decodeAudioData (blob) / startRendering (stream) of chunk c
\* resolved: normalize and post.  An empty blob never decodes.  Posting
\* through a null workerRef throws into the catch block.  The decoded
\* samples are those of the captured parts (part k carries the sample
\* k / SampleSteps), or silence of the same length.
DecodeDone(c, silent) ==
    /\ chunks[c].fate = "decoding"
    /\ variant = "blob" => chunks[c].audio # <<>>
    /\ audioData' = [i \in 1..Len(chunks[c].audio) |->
                        IF silent THEN 0 ELSE chunks[c].audio[i]]
    /\ normalized' = IF variant = "blob" THEN normalizeAudio(audioData')
                     ELSE normalizeResampled(audioData')
    /\ sentAudio' = IF workerRef THEN PostTranscribe(sentAudio, normalized')
                    ELSE sentAudio
    /\ chunks' = [chunks EXCEPT ![c].fate = IF workerRef THEN "posted" ELSE "failed"]
    /\ isTranscribing' = IF variant = "stream" THEN St(isTranscribing, TRUE)
                         ELSE IF workerRef THEN isTranscribing
                         ELSE St(isTranscribing, FALSE)
    /\ error' = IF variant = "blob" /\ ~workerRef THEN St(error, DecodeErrorMsg)
                ELSE error
    /\ UNCHANGED <<engineVars, uiVars, variant, mounted, isModelLoading, isModelLoaded, isRecording,
                   transcription, progress, audioStream, refVars, sessions,
                   workerVars,
                   frameCount>>

\* ... or rejected: the catch block (useTranscribe.ts 190-196, part_002 167-170).
DecodeFail(c) ==
    /\ chunks[c].fate = "decoding"
    /\ chunks' = [chunks EXCEPT ![c].fate = "failed"]
    /\ isTranscribing' = IF variant = "blob" THEN St(isTranscribing, FALSE)
                         ELSE isTranscribing
    /\ error' = IF variant = "blob" THEN St(error, DecodeErrorMsg) ELSE error
    /\ UNCHANGED <<dspVars, engineVars, uiVars, variant, mounted, isModelLoading, isModelLoaded, isRecording,
                   transcription, progress, audioStream, refVars, sessions,
                   workerVars,
                   frameCount>>

\* resetTranscription (logs and audio statistics are not modelled).  The
\* DictationProcessor of part_004 calls it from handleClear (58-62), after
\* setInputText('') and setResult(null), behind a button that is disabled
\* while the input is empty and no result is shown (part_004 116-118); the
\* one of ModelStatus.tsx never calls it.
ResetTranscription ==
    /\ mounted
    /\ wiring # "append"
    /\ wiring = "replace" => (inputText # <<>> \/ correction.ran)
    /\ inputText' = <<>>
    /\ correction' = IF wiring = "replace" THEN NotCorrected ELSE correction
    /\ transcription' = <<>>
    /\ error' = Null
    /\ chunks' = Emptied
    /\ rawText' = IF wiring = "replace" THEN <<>> ELSE rawText
    /\ UNCHANGED <<dspVars, wiring, rendered, variant, mounted, isModelLoading,
                   isModelLoaded, isRecording,
                   isTranscribing, progress, audioStream, refVars, sessions,
                   workerVars,
                   frameCount>>

\* The DictationProcessor renders with a `transcription` that differs from
\* the one of its previous render, and the effect depending on it runs.
\* Several state updates of the hook may precede one render.
SyncEffect ==
    /\ mounted
    /\ wiring # "none"
    /\ transcription # rendered
    /\ rendered' = transcription
    /\ inputText' = SyncInput(inputText, transcription)
    /\ UNCHANGED <<dspVars, engineVars, wiring, variant, mounted, hookVars, refVars,
                   sessions, chunks, workerVars, frameCount>>

\* What the user types into the input.
TypedTexts == {<<"h", "i", " ">>}

\* DictationInput onChange={setInputText} (ModelStatus.tsx 132, part_004 97)
TypeInput(t) ==
    /\ mounted
    /\ wiring # "none"
    /\ inputText # t
    /\ inputText' = t
    /\ UNCHANGED <<dspVars, engineVars, wiring, rendered, variant, mounted, hookVars,
                   refVars, sessions, chunks, workerVars, frameCount>>

\* The hook's end of the bridge: the handle, the worker behind it and the
\* messages on their way to the hook.
Bridge == [ref |-> workerRef, pipeline |-> pipelineState, inbox |-> fromWorker]

\* Mutant of Terminate: the worker is terminated but the handle is kept.
TerminateKeepsHandle(w) ==
    [ref |-> w.ref, pipeline |-> "terminated", inbox |-> <<>>]

\* workerRef.current?.terminate(); workerRef.current = null
\* A terminated worker delivers nothing more.
Terminate(w) ==
    [ref |-> FALSE,
     pipeline |-> IF w.ref THEN "terminated" ELSE w.pipeline,
     inbox |-> IF w.ref THEN <<>> ELSE w.inbox]

\* The effect's cleanup, run when the component is unmounted.
Unmount ==
    /\ mounted
    /\ mounted' = FALSE
    /\ workerRef' = Terminate(Bridge).ref
    /\ pipelineState' = Terminate(Bridge).pipeline
    /\ fromWorker' = Terminate(Bridge).inbox
    /\ chunks' = [c \in ChunkIds |->
                    IF chunks[c].fate \in {"posted", "answered", "dropped"}
                    THEN [chunks[c] EXCEPT !.fate = "lost"] ELSE chunks[c]]
    /\ UNCHANGED <<dspVars, engineVars, uiVars, variant, hookVars, handle, scriptNodeRef, audioBufferRef, chunksRef,
                   sessions,
                   frameCount>>

\* ModelStatus.tsx 15-44: what the status badge shows for its props.
ModelStatus(isLoading, isLoaded, err) ==
    IF err \notin {Null, ""} THEN "failed"
    ELSE IF isLoading THEN "loading"
    ELSE IF isLoaded THEN "ready"
    ELSE "unloaded"

\* The model lifecycle state a caller reads off the hook, and the one the
\* DictationProcessor wiring reports (isLoading = isModelLoading || isTranscribing).
LifecycleState == ModelStatus(isModelLoading, isModelLoaded, error)
ReportedState == ModelStatus(isModelLoading \/ isTranscribing, isModelLoaded, error)

Next ==
    \/ \E p \in DownloadReports : WorkerDownload("progress", p)
    \/ WorkerDownload("done", 0)
    \/ WorkerReady
    \/ \E r \in LoadReasons : WorkerLoadError(r)
    \/ \E c \in ChunkIds : \E o \in EngineOutputs(c) : WorkerComplete(c, o)
    \/ \E c \in ChunkIds : \E r \in InferReasons : WorkerInferenceError(c, r)
    \/ OnDownload
    \/ OnReady
    \/ OnComplete
    \/ OnError
    \/ StartRecording
    \/ \E s \in SessionIds : \E r \in SampleRates : MicGranted(s, r)
    \/ \E s \in SessionIds : \E stage \in {"construct", "start"} : MicSetupFails(s, stage)
    \/ \E s \in SessionIds : MicDenied(s)
    \/ \E s \in SessionIds : OnAudioProcess(s)
    \/ \E s \in SessionIds : RecorderCaptures(s)
    \/ StopRecordingBlob
    \/ \E s \in SessionIds : RecorderStopped(s)
    \/ StopRecordingStream
    \/ \E c \in ChunkIds : \E silent \in BOOLEAN : DecodeDone(c, silent)
    \/ \E c \in ChunkIds : DecodeFail(c)
    \/ ResetTranscription
    \/ Unmount

Spec == Init /\ [][Next]_vars

\* The worker's listener runs on: the engine call it awaits settles, by
\* resolving or by rejecting.
WorkerConfigures == WorkerReady \/ \E r \in LoadReasons : WorkerLoadError(r)
WorkerTranscribes ==
    \E c \in ChunkIds :
        \/ \E o \in EngineOutputs(c) : WorkerComplete(c, o)
        \/ \E r \in InferReasons : WorkerInferenceError(c, r)
FairSpec == Spec /\ WF_vars(WorkerConfigures) /\ WF_vars(WorkerTranscribes)

\* The event loop of the page runs on as well: a message the worker posted is
\* handed to onmessage, and an awaited decodeAudioData / startRendering
\* settles, by resolving or by rejecting.
OnMessage == OnDownload \/ OnReady \/ OnComplete \/ OnError
DecodeSettles ==
    \E c \in ChunkIds : (\E silent \in BOOLEAN : DecodeDone(c, silent)) \/ DecodeFail(c)
LiveSpec == FairSpec /\ WF_vars(OnMessage) /\ WF_vars(DecodeSettles)

InitNormalize ==
    /\ InitHook
    /\ audioData \in Buffers
    /\ normalized = NotRun
    /\ sentAudio = <<>>
    /\ rawText = <<>>
    /\ correction = NotCorrected
    /\ wiring = "none"
    /\ inputText = <<>>
    /\ rendered = <<>>


\* useTranscribe.ts 177-187: normalize the decoded samples and post them.
NormalizeBlob ==
    /\ variant = "blob"
    /\ ~normalized.ran
    /\ normalized' = normalizeAudio(audioData)
    /\ sentAudio' = PostTranscribe(sentAudio, normalized')
    /\ UNCHANGED <<audioData, engineVars, uiVars, variant, mounted, hookVars, refVars, sessions, chunks,
                   workerVars, frameCount>>

\* part_002 141-165: normalize the resampled samples, raise isTranscribing
\* (line 158) and post them.
NormalizeStream ==
    /\ variant = "stream"
    /\ ~normalized.ran
    /\ normalized' = normalizeResampled(audioData)
    /\ isTranscribing' = St(isTranscribing, TRUE)
    /\ sentAudio' = PostTranscribe(sentAudio, normalized')
    /\ UNCHANGED <<audioData, engineVars, uiVars, variant, mounted, isModelLoading,
                   isModelLoaded, isRecording, transcription, progress, error,
                   audioStream, refVars, sessions, chunks, workerVars, frameCount>>

NextNormalize == NormalizeBlob \/ NormalizeStream
SpecNormalize == InitNormalize /\ [][NextNormalize]_vars


\* ------------------------------------------------------ correction engine
\* Text is a sequence of one-character strings; positions in the code are
\* 0-based, indices here are 1-based.
Lower == <<"a", "b", "c", "d", "e", "f", "g", "h", "i", "j", "k", "l", "m",
           "n", "o", "p", "q", "r", "s", "t", "u", "v", "w", "x", "y", "z">>
Upper == <<"A", "B", "C", "D", "E", "F", "G", "H", "I", "J", "K", "L", "M",
           "N", "O", "P", "Q", "R", "S", "T", "U", "V", "W", "X", "Y", "Z">>
LowerIdx == [ch \in {Lower[i] : i \in 1..26} |-> CHOOSE i \in 1..26 : Lower[i] = ch]
UpperIdx == [ch \in {Upper[i] : i \in 1..26} |-> CHOOSE i \in 1..26 : Upper[i] = ch]
IsLower(ch) == ch \in DOMAIN LowerIdx
toUpperCase(ch) == IF ch \in DOMAIN LowerIdx THEN Upper[LowerIdx[ch]] ELSE ch
toLowerCase(ch) == IF ch \in DOMAIN UpperIdx THEN Lower[UpperIdx[ch]] ELSE ch
\* \w
WordChars ==
    DOMAIN LowerIdx \cup DOMAIN UpperIdx
        \cup {"0", "1", "2", "3", "4", "5", "6", "7", "8", "9", "_"}
\* [.!?]
SentenceEnd == {".", "!", "?"}
\* [.!?,;:]
ClausePunctuation == {".", "!", "?", ",", ";", ":"}

IsSpaceAt(s, i) == i \in 1..Len(s) /\ s[i] \in Whitespace
IsWordAt(s, i) == i \in 1..Len(s) /\ s[i] \in WordChars
\* \b between s[i-1] and s[i]
WordBoundary(s, i) == IsWordAt(s, i - 1) # IsWordAt(s, i)

\* lit (in lower case) is at s[i..] when case is ignored (the i flag)
LitAt(s, i, lit) ==
    /\ i >= 1
    /\ i + Len(lit) - 1 <= Len(s)
    /\ \A k \in 1..Len(lit) : toLowerCase(s[i + k - 1]) = lit[k]

\* the number of consecutive characters of S from s[i] on
RECURSIVE RunLen(_, _, _)
RunLen(s, i, S) ==
    IF i \in 1..Len(s) /\ s[i] \in S THEN 1 + RunLen(s, i + 1, S) ELSE 0

\* correctionEngine.ts 15-23.  An alternative is a literal, then `+` on its
\* last character (plus), then `,?` (comma), then `\s` (space); every pattern
\* starts with \b and has the flags gi.
FILLER_PATTERNS ==
    << << [lit |-> <<"u", "m">>, plus |-> TRUE, comma |-> FALSE, space |-> FALSE],
          [lit |-> <<"u", "h">>, plus |-> TRUE, comma |-> FALSE, space |-> FALSE],
          [lit |-> <<"e", "r">>, plus |-> TRUE, comma |-> FALSE, space |-> FALSE],
          [lit |-> <<"a", "h">>, plus |-> TRUE, comma |-> FALSE, space |-> FALSE],
          [lit |-> <<"l", "i", "k", "e">>, plus |-> FALSE, comma |-> TRUE, space |-> TRUE] >>,
       << [lit |-> <<"y", "o", "u", " ", "k", "n", "o", "w">>, plus |-> FALSE, comma |-> TRUE, space |-> TRUE] >>,
       << [lit |-> <<"b", "a", "s", "i", "c", "a", "l", "l", "y">>, plus |-> FALSE, comma |-> TRUE, space |-> TRUE] >>,
       << [lit |-> <<"l", "i", "t", "e", "r", "a", "l", "l", "y">>, plus |-> FALSE, comma |-> TRUE, space |-> TRUE] >>,
       << [lit |-> <<"a", "c", "t", "u", "a", "l", "l", "y">>, plus |-> FALSE, comma |-> TRUE, space |-> TRUE] >>,
       << [lit |-> <<"s", "o", "r", "t", " ", "o", "f">>, plus |-> FALSE, comma |-> FALSE, space |-> TRUE],
          [lit |-> <<"k", "i", "n", "d", " ", "o", "f">>, plus |-> FALSE, comma |-> FALSE, space |-> TRUE] >>,
       << [lit |-> <<"i", " ", "m", "e", "a", "n">>, plus |-> FALSE, comma |-> TRUE, space |-> TRUE] >> >>

\* correctionEngine.ts 26-32
BOUNDARY_TRIGGERS ==
    << <<"h", "o", "w", "e", "v", "e", "r">>,
       <<"t", "h", "e", "r", "e", "f", "o", "r", "e">>,
       <<"m", "o", "r", "e", "o", "v", "e", "r">>,
       <<"f", "u", "r", "t", "h", "e", "r", "m", "o", "r", "e">>,
       <<"a", "d", "d", "i", "t", "i", "o", "n", "a", "l", "l", "y">>,
       <<"c", "o", "n", "s", "e", "q", "u", "e", "n", "t", "l", "y">>,
       <<"n", "e", "v", "e", "r", "t", "h", "e", "l", "e", "s", "s">>,
       <<"m", "e", "a", "n", "w", "h", "i", "l", "e">>,
       <<"s", "u", "b", "s", "e", "q", "u", "e", "n", "t", "l", "y">>,
       <<"i", "n", " ", "a", "d", "d", "i", "t", "i", "o", "n">>,
       <<"a", "s", " ", "a", " ", "r", "e", "s", "u", "l", "t">>,
       <<"o", "n", " ", "t", "h", "e", " ", "o", "t", "h", "e", "r", " ", "h", "a", "n", "d">>,
       <<"i", "n", " ", "c", "o", "n", "c", "l", "u", "s", "i", "o", "n">>,
       <<"f", "i", "r", "s", "t">>,
       <<"s", "e", "c", "o", "n", "d">>,
       <<"t", "h", "i", "r", "d">>,
       <<"f", "i", "n", "a", "l", "l", "y">>,
       <<"n", "e", "x", "t">>,
       <<"t", "h", "e", "n">>,
       <<"a", "l", "s", "o">>,
       <<"b", "u", "t">>,
       <<"a", "n", "d", " ", "t", "h", "e", "n">>,
       <<"s", "o", " ", "t", "h", "e", "n">>,
       <<"a", "f", "t", "e", "r", " ", "t", "h", "a", "t">> >>

\* ---- the regular expressions, as the length of the match that starts at
\* s[i] (0 when there is none); every one of them consumes a character.
\* The alternative a matched from s[i] up to s[j - 1] with its literal and
\* its `+`; at s[j]: `,?` and `\s`.
AltRest(s, a, i, j) ==
    IF ~a.space THEN j - i
    ELSE IF a.comma /\ j <= Len(s) /\ s[j] = "," /\ IsSpaceAt(s, j + 1) THEN j + 2 - i
    ELSE IF IsSpaceAt(s, j) THEN j + 1 - i
    ELSE 0

AltLen(s, i, a) ==
    IF ~LitAt(s, i, a.lit) THEN 0
    ELSE AltRest(s, a, i,
             i + Len(a.lit)
             + (IF a.plus
                THEN RunLen(s, i + Len(a.lit),
                            {a.lit[Len(a.lit)], toUpperCase(a.lit[Len(a.lit)])})
                ELSE 0))

\* the first alternative that matches wins
RECURSIVE FirstAlt(_, _, _, _)
FirstAlt(s, i, alts, k) ==
    IF k > Len(alts) THEN 0
    ELSE IF AltLen(s, i, alts[k]) > 0 THEN AltLen(s, i, alts[k])
    ELSE FirstAlt(s, i, alts, k + 1)

\* /\b(alt|alt|...)/gi
FillerLen(s, i, alts) == IF WordBoundary(s, i) THEN FirstAlt(s, i, alts, 1) ELSE 0

\* /\s{2,}/g
MultiSpaceLen(s, i) ==
    IF RunLen(s, i, Whitespace) >= 2 THEN RunLen(s, i, Whitespace) ELSE 0

\* new RegExp(`(\\s)(${trigger})\\s`, 'gi')
TriggerLen(s, i, lit) ==
    IF IsSpaceAt(s, i) /\ LitAt(s, i + 1, lit) /\ IsSpaceAt(s, i + 1 + Len(lit))
    THEN Len(lit) + 2 ELSE 0

\* /\.\s+([a-z])/g
DotLowerLen(s, i) ==
    LET n == RunLen(s, i + 1, Whitespace) IN
      IF s[i] = "." /\ n >= 1 /\ i + 1 + n <= Len(s) /\ IsLower(s[i + 1 + n])
      THEN n + 2 ELSE 0

\* /\bi\b/g
StandaloneILen(s, i) ==
    IF s[i] = "i" /\ WordBoundary(s, i) /\ WordBoundary(s, i + 1) THEN 1 ELSE 0

\* /\bgonna\b/gi and its like
WordLen(s, i, lit) ==
    IF WordBoundary(s, i) /\ LitAt(s, i, lit) /\ WordBoundary(s, i + Len(lit))
    THEN Len(lit) ELSE 0

\* /\b(\w+)\s+\1\b/gi: a word of w characters, sp characters of whitespace,
\* the same word again (case ignored)
RepeatLen(s, i) ==
    LET w == RunLen(s, i, WordChars)
        sp == RunLen(s, i + w, Whitespace)
    IN IF /\ WordBoundary(s, i)
          /\ w >= 1
          /\ sp >= 1
          /\ i + w + sp + w - 1 <= Len(s)
          /\ \A k \in 0..(w - 1) :
                 toLowerCase(s[i + w + sp + k]) = toLowerCase(s[i + k])
          /\ ~IsWordAt(s, i + w + sp + w)
       THEN w + sp + w ELSE 0

\* /\s+([,.])/g
SpacePunctLen(s, i) ==
    LET n == RunLen(s, i, Whitespace) IN
      IF n >= 1 /\ i + n <= Len(s) /\ s[i + n] \in {",", "."} THEN n + 1 ELSE 0

\* /([,.])\s{2,}/g
PunctSpacesLen(s, i) ==
    IF s[i] \in {",", "."} /\ RunLen(s, i + 1, Whitespace) >= 2
    THEN RunLen(s, i + 1, Whitespace) + 1 ELSE 0

MatchLen(s, i, pat) ==
    CASE pat.kind = "filler" -> FillerLen(s, i, pat.alts)
      [] pat.kind = "multispace" -> MultiSpaceLen(s, i)
      [] pat.kind = "trigger" -> TriggerLen(s, i, pat.lit)
      [] pat.kind = "dotlower" -> DotLowerLen(s, i)
      [] pat.kind = "i" -> StandaloneILen(s, i)
      [] pat.kind = "word" -> WordLen(s, i, pat.lit)
      [] pat.kind = "repeat" -> RepeatLen(s, i)
      [] pat.kind = "spacepunct" -> SpacePunctLen(s, i)
      [] pat.kind = "punctspaces" -> PunctSpacesLen(s, i)

\* The matches of a global regular expression, left to right and not
\* overlapping: of the places where it matches (found), the leftmost one at
\* or after i, then the matches after that match.
RECURSIVE Select(_, _)
Select(found, i) ==
    IF \A m \in found : m.at < i THEN <<>>
    ELSE LET m == CHOOSE c \in found :
                      c.at >= i /\ \A o \in found : o.at >= i => c.at <= o.at
         IN <<m>> \o Select(found, m.at + m.len)

Matches(s, i, pat) ==
    Select({m \in {[at |-> j, len |-> MatchLen(s, j, pat)] : j \in 1..Len(s)} :
               m.len > 0}, i)

Matched(s, m) == SubSeq(s, m.at, m.at + m.len - 1)

\* String.prototype.replace: s with the k-th match replaced by reps[k].
RECURSIVE Rebuild(_, _, _, _, _)
Rebuild(s, ms, reps, k, from) ==
    IF k > Len(ms) THEN SubSeq(s, from, Len(s))
    ELSE SubSeq(s, from, ms[k].at - 1) \o reps[k]
         \o Rebuild(s, ms, reps, k + 1, ms[k].at + ms[k].len)
Replace(s, ms, reps) == Rebuild(s, ms, reps, 1, 1)
ReplaceEach(s, ms, by) == Replace(s, ms, [j \in 1..Len(ms) |-> by])

\* A Change; the description is its fixed text and the text interpolated
\* into it.
Change(type, description, arg, position) ==
    [type |-> type, description |-> <<description, arg>>, position |-> position]

Pick(xs) == [k \in 1..Len(xs) |-> xs[k].change]
Fired(x) == x.fires

\* Step 1 (47-60): for each pattern, one Change per match at its index in the
\* text as the earlier patterns left it, then the matches are deleted.
RECURSIVE removeFillers(_, _)
removeFillers(r, k) ==
    IF k > Len(FILLER_PATTERNS) THEN r
    ELSE LET ms == Matches(r.text, 1, [kind |-> "filler", alts |-> FILLER_PATTERNS[k]])
         IN removeFillers(
              [text |-> ReplaceEach(r.text, ms, <<>>),
               changes |-> r.changes \o
                   [j \in 1..Len(ms) |->
                       Change("filler", "Removed filler: ",
                              Trim(Matched(r.text, ms[j])), ms[j].at - 1)]],
              k + 1)

\* Step 2 (62-73)
fixMultipleSpaces(r) ==
    LET ms == Matches(r.text, 1, [kind |-> "multispace"]) IN
      [text |-> ReplaceEach(r.text, ms, <<" ">>),
       changes |-> r.changes \o
           [j \in 1..Len(ms) |->
               Change("spacing", "Fixed multiple spaces", <<>>, ms[j].at - 1)]]

\* 127-139: the replace callback for the match m of a trigger in s.  offset
\* is the index of the whitespace before the word; beforeIndex = offset - 1.
TriggerWord(s, lit, m) == SubSeq(s, m.at + 1, m.at + Len(lit))
TriggerFires(s, m) == m.at - 2 >= 0 /\ s[m.at - 1] \notin ClausePunctuation
TriggerReplacement(s, lit, m) ==
    IF TriggerFires(s, m)
    THEN <<".", " ", toUpperCase(s[m.at + 1])>> \o Tail(TriggerWord(s, lit, m)) \o <<" ">>
    ELSE Matched(s, m)
TriggerOutcome(s, lit, m) ==
    [fires |-> TriggerFires(s, m),
     change |-> Change("boundary", "Added period before ",
                       TriggerWord(s, lit, m), m.at - 1)]

\* 125-140: one trigger, ms being its matches in r.text
TriggerApplied(r, lit, ms) ==
    [text |-> Replace(r.text, ms,
                [j \in 1..Len(ms) |-> TriggerReplacement(r.text, lit, ms[j])]),
     changes |-> r.changes \o
         Pick(SelectSeq([j \in 1..Len(ms) |-> TriggerOutcome(r.text, lit, ms[j])],
                        Fired))]

\* BOUNDARY_TRIGGERS.forEach, from trigger k on
RECURSIVE applyTriggers(_, _)
TriggerStep(r, k, ms) ==
    IF ms = <<>> THEN applyTriggers(r, k + 1)
    ELSE applyTriggers(TriggerApplied(r, BOUNDARY_TRIGGERS[k], ms), k + 1)
applyTriggers(r, k) ==
    IF k > Len(BOUNDARY_TRIGGERS) THEN r
    ELSE TriggerStep(r, k,
             Matches(r.text, 1, [kind |-> "trigger", lit |-> BOUNDARY_TRIGGERS[k]]))

\* result.split(/[.!?]/): the lengths of the segments, from the positions
\* seps of the separators
SegmentLengths(s) ==
    LET seps == {i \in 1..Len(s) : s[i] \in SentenceEnd}
        sep(k) == IF k = 0 THEN 0
                  ELSE IF k > Cardinality(seps) THEN Len(s) + 1
                  ELSE CHOOSE i \in seps : Cardinality({j \in seps : j < i}) = k - 1
    IN [k \in 1..(Cardinality(seps) + 1) |-> sep(k) - sep(k - 1) - 1]

\* if (segment.length > 100)
LongSegment == 100

\* 149-159: one advisory Change per long segment, whose position is the
\* index of the segment.
LongSegmentsFlagged(r) ==
    LET segs == SegmentLengths(r.text) IN
      [text |-> r.text,
       changes |-> r.changes \o
           Pick(SelectSeq(
               [i \in 1..Len(segs) |->
                   [fires |-> segs[i] > LongSegment,
                    change |-> Change("boundary",
                                  "Long sentence detected - may need manual review",
                                  <<>>, i - 1)]],
               Fired))]

\* 121-162
inferSentenceBoundaries(text, changes) ==
    LongSegmentsFlagged(applyTriggers([text |-> text, changes |-> changes], 1))

\* Step 4 (78-86): `position` is the local of line 45, which is never assigned.
fixCasingAfterPeriods(r) ==
    LET ms == Matches(r.text, 1, [kind |-> "dotlower"]) IN
      [text |-> Replace(r.text, ms,
                  [j \in 1..Len(ms) |->
                      <<".", " ", toUpperCase(r.text[ms[j].at + ms[j].len - 1])>>]),
       changes |-> r.changes \o
           [j \in 1..Len(ms) |-> Change("casing", "Capitalized after period", <<>>, 0)]]

\* Step 5 (88-96)
capitalizeFirstLetter(r) ==
    IF Len(r.text) > 0 /\ IsLower(r.text[1])
    THEN [text |-> <<toUpperCase(r.text[1])>> \o Tail(r.text),
          changes |-> Append(r.changes,
              Change("casing", "Capitalized first letter", <<>>, 0))]
    ELSE r

\* Step 6 (98-99)
capitalizeStandaloneI(r) ==
    [text |-> ReplaceEach(r.text, Matches(r.text, 1, [kind |-> "i"]), <<"I">>),
     changes |-> r.changes]

EndsSentence(s) == s # <<>> /\ s[Len(s)] \in SentenceEnd

\* Mutant of NeedsEndingPeriod: the length test is left out.
NeedsEndingPeriodAlways(result) == ~EndsSentence(Trim(result))

\* if (result.length > 0 && !/[.!?]$/.test(result.trim()))
NeedsEndingPeriod(result) == Len(result) > 0 /\ ~EndsSentence(Trim(result))

\* Step 7 (101-109)
addEndingPunctuation(r) ==
    IF NeedsEndingPeriod(r.text)
    THEN [text |-> Trim(r.text) \o <<".">>,
          changes |-> Append(r.changes,
              Change("punctuation", "Added ending period", <<>>, Len(r.text)))]
    ELSE r

\* 168-174: result.replace(/\bgonna\b/gi, 'going to') and its like
ReplaceWord(s, lit, by) ==
    ReplaceEach(s, Matches(s, 1, [kind |-> "word", lit |-> lit]), by)
expandContractions(s) ==
    ReplaceWord(
        ReplaceWord(
            ReplaceWord(s, <<"g", "o", "n", "n", "a">>,
                        <<"g", "o", "i", "n", "g", " ", "t", "o">>),
            <<"w", "a", "n", "n", "a">>, <<"w", "a", "n", "t", " ", "t", "o">>),
        <<"g", "o", "t", "t", "a">>, <<"g", "o", "t", " ", "t", "o">>)

\* 177: result.replace(/\b(\w+)\s+\1\b/gi, '$1')
collapseRepeats(s) ==
    LET ms == Matches(s, 1, [kind |-> "repeat"]) IN
      Replace(s, ms,
          [j \in 1..Len(ms) |->
              SubSeq(s, ms[j].at, ms[j].at + RunLen(s, ms[j].at, WordChars) - 1)])

\* 180: result.replace(/\s+([,.])/g, '$1')
closeUpPunctuation(s) ==
    LET ms == Matches(s, 1, [kind |-> "spacepunct"]) IN
      Replace(s, ms, [j \in 1..Len(ms) |-> <<s[ms[j].at + ms[j].len - 1]>>])

\* 181: result.replace(/([,.])\s{2,}/g, '$1 ')
spaceAfterPunctuation(s) ==
    LET ms == Matches(s, 1, [kind |-> "punctspaces"]) IN
      Replace(s, ms, [j \in 1..Len(ms) |-> <<s[ms[j].at], " ">>])

\* 164-184: the text is rewritten, `changes` is not touched.
fixCommonArtifacts(text, changes) ==
    [text |-> spaceAfterPunctuation(
                  closeUpPunctuation(collapseRepeats(expandContractions(text)))),
     changes |-> changes]

\* Step n of applyCorrections, applied to the text and the changes so far.
Step(r, n) ==
    CASE n = 1 -> removeFillers(r, 1)
      [] n = 2 -> fixMultipleSpaces(r)
      [] n = 3 -> inferSentenceBoundaries(r.text, r.changes)
      [] n = 4 -> fixCasingAfterPeriods(r)
      [] n = 5 -> capitalizeFirstLetter(r)
      [] n = 6 -> capitalizeStandaloneI(r)
      [] n = 7 -> addEndingPunctuation(r)
      [] n = 8 -> fixCommonArtifacts(r.text, r.changes)

\* The text and the changes after step n of applyCorrections (each step is
\* evaluated on the value the step before it produced).
RECURSIVE AfterStep(_, _)
AfterStep(text, n) ==
    IF n = 0 THEN [text |-> text, changes |-> <<>>]
    ELSE CHOOSE out \in {Step(r, n) : r \in {AfterStep(text, n - 1)}} : TRUE

\* correctionEngine.ts 42-119
applyCorrections(text) ==
    LET r == AfterStep(text, 8) IN
      [original |-> text, corrected |-> Trim(r.text), changes |-> r.changes]

\* ---- the inputs applyCorrections is applied to
Tokens ==
    { <<"u", "m", " ">>,
      <<"g", "o", "n", "n", "a", " ">>,
      <<"b", "u", "t", " ">>,
      <<"a", " ">>,
      <<"a">>,
      <<"a", ".", " ">>,
      <<"a", ",", " ">>,
      <<"i", " ">>,
      <<" ">> }
Examples ==
    { <<"u", "m", " ", "s", "o", " ", "I", " ", "t", "h", "i", "n", "k", " ", "g", "o", "n", "n", "a", " ", "w", "o", "r", "k">>,
      <<"a", " ", "a", "n", "d", " ", "t", "h", "e", "n", " ", "a">>,
      <<"u", "m", " ", "y", "o", "u", " ", "k", "n", "o", "w", " ", "a">>,
      <<"a", "n", " ", "u", "m", "b", "r", "e", "l", "l", "a">>,
      <<"a", "n", " ", "e", "r", "r", "o", "r", " ", "a">>,
      <<"a", "\r", "\r", "b">>,
      <<"u", "m", "\r">> }

RECURSIVE Phrases(_)
Phrases(n) ==
    IF n = 0 THEN {<<>>}
    ELSE LET shorter == Phrases(n - 1) IN
           shorter \cup {p \o t : p \in shorter, t \in Tokens}

\* a text whose second segment is longer than LongSegment
LongExample == <<"a", ".", " ">> \o [i \in 1..(LongSegment + 1) |-> "b"]

Inputs == Examples \cup {LongExample} \cup Phrases(MaxTokens)

\* The engine is independent of the hooks; one of them is mounted.
InitCorrect ==
    /\ InitHook
    /\ variant = "blob"
    /\ audioData = <<>>
    /\ normalized = NotRun
    /\ sentAudio = <<>>
    /\ rawText \in Inputs
    /\ correction = NotCorrected
    /\ wiring = "none"
    /\ inputText = <<>>
    /\ rendered = <<>>

ApplyCorrections ==
    /\ ~correction.ran
    /\ correction' = [ran |-> TRUE, result |-> applyCorrections(rawText)]
    /\ UNCHANGED <<rawText, dspVars, uiVars, variant, mounted, hookVars, refVars, sessions,
                   chunks, workerVars, frameCount>>

NextCorrect == ApplyCorrections
SpecCorrect == InitCorrect /\ [][NextCorrect]_vars

\* The same program with one of the two hooks mounted.
InitBlob == Init /\ variant = "blob"
InitStream == Init /\ variant = "stream"
SpecBlob == InitBlob /\ [][Next]_vars

\* The hook under one of the two DictationProcessor components.
InitWired ==
    /\ InitHook
    /\ audioData = <<>>
    /\ normalized = NotRun
    /\ sentAudio = <<>>
    /\ rawText = <<>>
    /\ correction = NotCorrected
    /\ wiring \in {"replace", "append"}
    /\ inputText = <<>>
    /\ rendered = <<>>

\* applyCorrections on the texts the input shows within the bounds (what is
\* typed, a result text, two result texts joined), computed once.
Refined ==
    LET results == UNION {{ExtractText(o)[2] : o \in EngineOutputs(c)} :
                             c \in 1..(MaxFrames + MaxSessions)}
        texts == TypedTexts \cup results \cup {AppendText(a, b) : a, b \in results}
    IN [t \in texts |-> applyCorrections(t)]

\* part_004 42-56: processText, the Refine button of the DictationProcessor
\* that has one, enabled whenever the input is not blank (isProcessing is
\* true only inside the call).  rawText is the text the result shown was
\* computed from; a further press recomputes the result from the input.
ProcessText ==
    /\ mounted
    /\ wiring = "replace"
    /\ Trim(inputText) # <<>>
    /\ rawText' = inputText
    /\ correction' = [ran |-> TRUE,
                      result |-> IF inputText \in DOMAIN Refined THEN Refined[inputText]
                                 ELSE applyCorrections(inputText)]
    /\ UNCHANGED <<dspVars, uiVars, variant, mounted, hookVars, refVars, sessions,
                   chunks, workerVars, frameCount>>

NextWired == Next \/ SyncEffect \/ (\E t \in TypedTexts : TypeInput(t)) \/ ProcessText
SpecWired == InitWired /\ [][NextWired]_vars
SpecStream == InitStream /\ [][Next]_vars

\* ======================================================================
\* Properties
\* ======================================================================
\* The head of fromWorker is being handled in this step.
Handling(t) ==
    /\ mounted /\ mounted'
    /\ fromWorker # <<>>
    /\ Head(fromWorker).type = t
    /\ fromWorker' = Tail(fromWorker)

\* Position of the first occurrence of character ch in s (0 when absent).
RECURSIVE IndexOf(_, _)
IndexOf(s, ch) ==
    IF s = <<>> THEN 0
    ELSE IF Head(s) = ch THEN 1
    ELSE LET r == IndexOf(Tail(s), ch) IN IF r = 0 THEN 0 ELSE r + 1

\* C1: at most one posted transcribe request is unanswered at any moment
\* (a further chunk waits until the complete or error of the current one).
C1_AtMostOneOutstanding == Cardinality(Outstanding) <= 1

\* C2: within one session the transcript holds the result texts of its chunks
\* in chunk order: of two chunks of a session whose texts were merged (and not
\* emptied since), both texts are in the transcript, the earlier chunk's first.
C2_TranscriptInChunkOrder ==
    \A i, j \in ChunkIds :
        (/\ i < j
         /\ chunks[i].session = chunks[j].session
         /\ chunks[i].fate = "completed"
         /\ chunks[j].fate = "completed")
        => /\ IndexOf(transcription, Digits[i]) > 0
           /\ IndexOf(transcription, Digits[i]) < IndexOf(transcription, Digits[j])

\* C3: a chunk handed to the bridge while the model is loading is queued, not
\* dropped.
C3_QueuedWhileLoading ==
    \A c \in ChunkIds : chunks[c].loading => chunks[c].fate # "notReady"

\* C4: isTranscribing is true whenever a posted transcribe request has not yet
\* received its complete or error.
C4_IndicatorCoversOutstanding == Outstanding # {} => isTranscribing

IsSuffix(t, str) ==
    /\ Len(t) <= Len(str)
    /\ SubSeq(str, Len(str) - Len(t) + 1, Len(str)) = t

HandedOff == Len(chunks') = Len(chunks) + 1
NewChunk == chunks'[Len(chunks')]

\* C5: an error reply to one chunk does not stop the session: a chunk produced
\* later in the same session still passes the dispatch guard, and the text of
\* its complete is merged at the end of the transcript.
C5_Step ==
    /\ (HandedOff /\ mounted /\ NewChunk.afterErr) => NewChunk.fate = "decoding"
    /\ (Handling("complete") /\ chunks[Head(fromWorker).chunk].afterErr)
       => LET x == ExtractText(Head(fromWorker).out) IN
            x[1] => IsSuffix(x[2], transcription')
C5_SessionSurvivesError == [][C5_Step]_vars

C5_Witness ==
    \E c \in ChunkIds :
        /\ chunks[c].afterErr
        /\ chunks[c].fate = "completed"
        /\ IsSuffix(<<Digits[c]>>, transcription)

\* C6: handling the error reply to a transcribe request leaves the model
\* lifecycle ready, and the status shown is not the failed one.
C6_Step ==
    (Handling("error") /\ Head(fromWorker).chunk # 0)
    => (LifecycleState' = "ready" /\ ReportedState' # "failed")
C6_TranscribeErrorKeepsReady == [][C6_Step]_vars

\* C7: handling the error reply to configure moves the lifecycle from loading
\* to failed: isModelLoading becomes false, isModelLoaded stays false, and the
\* reason string the worker sent is the hook's error.
C7_Step ==
    (Handling("error") /\ Head(fromWorker).chunk = 0)
    => /\ isModelLoading /\ ~isModelLoaded
       /\ ~isModelLoading' /\ ~isModelLoaded'
       /\ error' # Null
       /\ Head(fromWorker).reason # Undefined => error' = Head(fromWorker).reason
       /\ LifecycleState' = "failed"
C7_ConfigureErrorFails == [][C7_Step]_vars

C7_Witness ==
    /\ mounted
    /\ pipelineState = "failed"
    /\ ~isModelLoading /\ ~isModelLoaded
    /\ error = "fetch failed"

\* The hook has handled the error reply to configure.
LoadFailureObserved ==
    /\ mounted
    /\ pipelineState = "failed"
    /\ ~isModelLoading
    /\ \A i \in 1..Len(fromWorker) : fromWorker[i].type # "error"

\* C8: after the engine failed to load, the lifecycle remains failed and no
\* transcribe message is posted for any later recording.
C8_FailedUntilRetry ==
    LoadFailureObserved
    => /\ LifecycleState = "failed"
       /\ \A c \in ChunkIds : chunks[c].fate = "notReady"

\* The part of C8 that the hook does keep: nothing is transcribed and the model
\* is never shown as loading or ready again, and a recording can still be
\* started and stopped.
C8_NoTranscriptionAfterLoadFailure ==
    LoadFailureObserved
    => /\ LifecycleState \in {"failed", "unloaded"}
       /\ \A c \in ChunkIds : chunks[c].fate = "notReady"

\* C9: at most one recording session (a granted microphone stream with its
\* recorder or processor running) is active at any time.
C9_SingleSession ==
    Cardinality({s \in SessionIds : sessions[s].phase = "live"}) <= 1

\* stopRecording of the streaming hook acts in this step / the stop task of
\* the recorder of session s runs in this step.
StreamStops == variant = "stream" /\ handle # 0 /\ handle' = 0
BlobStops(s) == sessions[s].phase = "stopping" /\ sessions'[s].phase = "released"
\* stopRecording of the streaming hook stops a session that is recording.
RecordingStops == StreamStops /\ sessions[handle].phase = "live"

\* Exactly one chunk is handed off in this step: it belongs to session s, holds
\* all of buf, and was handed off while the microphone was still live.
FlushedOne(s, buf) ==
    /\ HandedOff
    /\ NewChunk.session = s
    /\ NewChunk.audio = buf
    /\ NewChunk.final
    /\ NewChunk.micLive
    /\ sessions'[s].phase = "released"

\* C10 as claimed: every stop produces exactly one chunk covering the whole
\* partial buffer, handed to normalization before the microphone is released.
C10_Step_Original ==
    /\ RecordingStops => FlushedOne(handle, audioBufferRef)
    /\ \A s \in SessionIds : BlobStops(s) => FlushedOne(s, Concat(chunksRef'))
C10_StopAlwaysFlushesOne == [][C10_Step_Original]_vars

\* C10 amended: the streaming hook flushes exactly one chunk when the buffer
\* holds at least one sample, and none when it is empty; the blob hook always
\* hands off exactly one blob.
C10_Step ==
    /\ RecordingStops =>
          /\ Samples(audioBufferRef) < Threshold(sessions[handle].rate)
          /\ IF audioBufferRef # <<>>
             THEN FlushedOne(handle, audioBufferRef)
             ELSE ~HandedOff /\ sessions'[handle].phase = "released"
    /\ \A s \in SessionIds : BlobStops(s) => FlushedOne(s, Concat(chunksRef'))
C10_StopFlushesPartialBuffer == [][C10_Step]_vars

C10_Witness ==
    \E c \in ChunkIds :
        /\ variant = "stream"
        /\ chunks[c].final /\ chunks[c].micLive
        /\ chunks[c].audio # <<>>
        /\ \E r \in SampleRates : Samples(chunks[c].audio) < Threshold(r)
        /\ sessions[chunks[c].session].phase = "released"

\* C11: every microphone stream that is live can still be released: the
\* hook is mounted and its handle refers to the stream's session (a session
\* whose recorder is stopping releases its stream in its stop task).
C11_EveryStreamReleasable ==
    \A s \in SessionIds :
        sessions[s].phase \in {"live", "open"}
        => /\ mounted /\ handle = s
           /\ variant = "blob" => sessions[s].phase = "live"

\* stopRecording is called in this step.
StopCalled ==
    \/ StreamStops
    \/ \E s \in SessionIds :
          sessions[s].phase = "live" /\ sessions'[s].phase = "stopping"

\* The complete being handled in this step answers a request that was
\* dispatched before stopRecording was called: in the streaming hook a chunk
\* flushed by onaudioprocess whose session has been stopped since; in the
\* blob hook chunks exist only after a stop.
CompletesAfterStop ==
    /\ Handling("complete")
    /\ LET c == chunks[Head(fromWorker).chunk] IN
         variant = "stream" =>
            (~c.final /\ sessions[c.session].phase = "released")

\* C12: stopRecording does not abort a request that is dispatched and not yet
\* completed (it stays as it is and its reply stays on its way), and when
\* its complete arrives the text is appended to the transcript.
C12_Step ==
    /\ StopCalled =>
          /\ fromWorker' = fromWorker
          /\ \A c \in ChunkIds :
                chunks[c].fate \in {"decoding", "posted", "answered"}
                => chunks'[c] = chunks[c]
    /\ CompletesAfterStop =>
          LET x == ExtractText(Head(fromWorker).out) IN
            x[1] => transcription' = AppendText(transcription, x[2])
C12_StopLeavesRequestToFinish == [][C12_Step]_vars

IsPrefix(t, str) == Len(t) <= Len(str) /\ SubSeq(str, 1, Len(t)) = t

\* startRecording or resetTranscription acts in this step.
StartsSession == Len(sessions') = Len(sessions) + 1
Resets == transcription' = <<>> /\ error' = Null /\ sessions' = sessions

\* C13: the transcript is append-only: a complete with a text leaves
\* prev + (one space if prev is non-empty) + text, any other complete leaves
\* the transcript alone, and the transcript loses its previous content only
\* in a step of resetTranscription or startRecording.
C13_Step ==
    /\ Handling("complete") =>
          LET x == ExtractText(Head(fromWorker).out) IN
            transcription' = IF x[1] THEN AppendText(transcription, x[2])
                             ELSE transcription
    /\ ~IsPrefix(transcription, transcription') => (StartsSession \/ Resets)
C13_TranscriptAppendOnly == [][C13_Step]_vars

\* The chunk handed off in this step holds no recorder part of an earlier
\* session (recorder parts carry their session).
NoEarlierParts ==
    \A i \in 1..Len(NewChunk.audio) : NewChunk.audio[i] >= NewChunk.session

\* The chunk handed off in this step holds only what the buffer held and the
\* frame captured in this step.
FromBufferOnly ==
    \A i \in 1..Len(NewChunk.audio) :
        \/ \E j \in 1..Len(audioBufferRef) : audioBufferRef[j] = NewChunk.audio[i]
        \/ NewChunk.audio[i] = frameCount' /\ frameCount' = frameCount + 1

\* C14: after stop followed by a new startRecording, no chunk of the new
\* session includes audio captured in an earlier session.  Blob hook: a chunk
\* of a session started after every earlier one was stopped holds no recorder
\* part of an earlier session.  Streaming hook: startRecording leaves the
\* partial buffer empty, and a chunk holds only what was buffered since.
\* The hooks keep no queue of chunks.
C14_Step ==
    /\ (variant = "blob" /\ HandedOff /\ sessions[NewChunk.session].fresh)
       => NoEarlierParts
    /\ (variant = "stream" /\ StartsSession) => audioBufferRef' = <<>>
    /\ (variant = "stream" /\ HandedOff) => FromBufferOnly
C14_SessionStateReset == [][C14_Step]_vars

\* C15: handling a download report never lowers the progress percentage, and
\* the percentage stays within 0..100.
C15_Step ==
    Handling("download") => (progress' >= progress /\ progress' \in 0..100)
C15_ProgressMonotonic == [][C15_Step]_vars

\* The lifecycle transitions that move forward.  The hooks have no retry, so
\* failed -> loading is never an explicit retry.
ForwardTransitions ==
    { <<"unloaded", "loading">>, <<"loading", "ready">>, <<"loading", "failed">> }

\* C16: the model lifecycle state only moves forward: unloaded to loading,
\* loading to ready or failed; never ready to loading or unloaded, never
\* failed to ready or unloaded, and failed to loading only on a retry.
C16_Step ==
    \/ LifecycleState' = LifecycleState
    \/ <<LifecycleState, LifecycleState'>> \in ForwardTransitions
C16_LifecycleMonotonic == [][C16_Step]_vars

\* C17: releasing the bridge terminates the worker and clears the handle;
\* releasing a bridge that is already released changes nothing; and once the
\* bridge is released no transcribe request is posted.
C17_Step ==
    /\ (mounted /\ ~mounted') =>
          /\ ~workerRef'
          /\ pipelineState' = "terminated"
          /\ fromWorker' = <<>>
    /\ Terminate(Terminate(Bridge)) = Terminate(Bridge)
    /\ ~workerRef => Terminate(Bridge) = Bridge
    /\ ~mounted => /\ ~workerRef /\ ~workerRef'
                   /\ \A c \in DOMAIN chunks' : chunks'[c].fate # "posted"
C17_ReleaseIdempotent == [][C17_Step]_vars

\* Released while a chunk was being decoded: the chunk was never posted.
C17_Witness ==
    /\ ~mounted /\ ~workerRef
    /\ pipelineState = "terminated"
    /\ Terminate(Bridge) = Bridge
    /\ \E c \in ChunkIds : chunks[c].fate = "failed" /\ chunks[c].session # 0

\* The worker posts a message in this step.
WorkerPosts == Len(fromWorker') = Len(fromWorker) + 1
Posted == fromWorker'[Len(fromWorker')]

\* More chunks than this are never handed off.
MaxChunks == MaxFrames + MaxSessions

\* C18: the worker answers every transcribe message with exactly one of
\* complete and error, and configure with exactly one of ready and error,
\* after the download messages: a terminal message is posted only for a
\* request that was unanswered until then, no request becomes unanswered
\* again, every request is answered unless the worker is terminated, and
\* the worker finishes no request without posting its terminal message.
C18_Step ==
    /\ (pipelineState = "constructing" /\ pipelineState' \in {"loaded", "failed"})
          => WorkerPosts
    /\ \A c \in ChunkIds : chunks'[c].fate # "dropped"
    /\ WorkerPosts =>
          IF Posted.type = "download" THEN
               pipelineState = "constructing" /\ pipelineState' = "constructing"
          ELSE IF Posted.chunk = 0 THEN
               /\ Posted.type \in {"ready", "error"}
               /\ pipelineState = "constructing"
               /\ pipelineState' = (IF Posted.type = "ready" THEN "loaded" ELSE "failed")
          ELSE /\ Posted.type \in {"complete", "error"}
               /\ Posted.chunk \in ChunkIds
               /\ chunks[Posted.chunk].fate = "posted"
               /\ chunks'[Posted.chunk].fate = "answered"
    /\ pipelineState' = "constructing" => pipelineState = "constructing"
    /\ \A c \in ChunkIds :
          /\ chunks'[c].fate = "posted" => chunks[c].fate \in {"decoding", "posted"}
          /\ chunks'[c].fate = "answered" => chunks[c].fate \in {"posted", "answered"}
C18_ExactlyOneAnswer ==
    /\ [][C18_Step]_vars
    /\ (pipelineState = "constructing") ~> (pipelineState # "constructing")
    /\ \A c \in 1..MaxChunks :
          (c \in ChunkIds /\ chunks[c].fate = "posted")
          ~> (c \in ChunkIds /\ chunks[c].fate # "posted")

\* Both kinds of request have been answered: configure with ready, one
\* transcribe with complete and another with error.
C18_Witness ==
    /\ pipelineState = "loaded"
    /\ \E c, d \in ChunkIds :
          /\ chunks[c].fate = "completed"
          /\ chunks[d].fate = "errored"

\* The getUserMedia of session s is rejected in this step.
Refused(s) == sessions[s].phase = "awaiting" /\ sessions'[s].phase = "denied"

\* C19: a refused microphone aborts only the startRecording call: isRecording
\* is not set, no stream is held, the reason is in error, no new attempt is
\* made, and the call has changed neither the transcript nor the model
\* lifecycle state nor the worker.
C19_Step ==
    \A s \in SessionIds : Refused(s) =>
        /\ isRecording' = isRecording
        /\ audioStream' = audioStream /\ handle' = handle
        /\ mounted => error' = MicError
        /\ Len(sessions') = Len(sessions)
        /\ transcription' = transcription /\ ~sessions[s].erased
        /\ LifecycleState' = LifecycleState
        /\ workerRef' = workerRef /\ pipelineState' = pipelineState
        /\ fromWorker' = fromWorker /\ chunks' = chunks
C19_RefusalAbortsOnlyStart == [][C19_Step]_vars

\* C20: for every buffer with a non-zero peak, normalization applies the
\* gain 0.95 / peak to every sample, so that the largest normalized magnitude
\* is 0.95 and no normalized sample exceeds 0.95 in absolute value.
C20_NormalizedPeak ==
    (normalized.ran /\ Peak(audioData) # 0) =>
        LET d == normalized.data IN
          /\ RatEq(normalized.gain, RatDiv(targetLevel, Sample(Peak(audioData))))
          /\ Len(d) = Len(audioData)
          /\ \A i \in 1..Len(d) :
                RatEq(d[i], RatMul(Sample(audioData[i]), normalized.gain))
          /\ \E i \in 1..Len(d) : RatEq(RatAbs(d[i]), targetLevel)
          /\ \A i \in 1..Len(d) : ~RatLess(targetLevel, RatAbs(d[i]))

\* A buffer whose peak is a negative sample below full scale, next to a
\* smaller sample, was normalized.
C20_Witness ==
    /\ normalized.ran
    /\ \E i, j \in 1..Len(audioData) :
          /\ audioData[i] = -Peak(audioData)
          /\ Abs(audioData[i]) < SampleSteps
          /\ Abs(audioData[j]) < Abs(audioData[i])
          /\ audioData[j] # 0

AllZero(buf) == \A i \in 1..Len(buf) : buf[i] = 0

\* C21: for an all-zero buffer normalization returns the samples unchanged
\* with gain 1.0 and flags the chunk invalid-silent, and the chunk is still
\* posted to the worker.
C21_SilentChunkFlaggedAndForwarded ==
    (normalized.ran /\ AllZero(audioData)) =>
        /\ normalized.data = [i \in 1..Len(audioData) |-> Sample(audioData[i])]
        /\ RatEq(normalized.gain, <<1, 1>>)
        /\ sentAudio = <<normalized.data>>
        /\ normalized.flagged

\* Decoding (blob) or resampling (stream) of chunk c fails in this step.
DecodeFails(c) == chunks[c].fate = "decoding" /\ chunks'[c].fate = "failed"

\* C22: when decoding or resampling of a chunk fails, the chunk is dropped
\* (it is never posted), the failure is reported to the caller through the
\* hook's error, isTranscribing is not left true by the failed chunk, and the
\* session, the worker and the transcript are as they were, so that a later
\* chunk or recording is processed as before.
C22_Step ==
    /\ \A c \in ChunkIds :
          DecodeFails(c) =>
            /\ mounted => error' = DecodeErrorMsg
            /\ mounted => IF variant = "blob" THEN isTranscribing' = FALSE
                          ELSE isTranscribing' = isTranscribing
            /\ sessions' = sessions /\ handle' = handle
            /\ isRecording' = isRecording
            /\ isModelLoaded' = isModelLoaded /\ workerRef' = workerRef
            /\ pipelineState' = pipelineState /\ fromWorker' = fromWorker
            /\ transcription' = transcription
\* inserted.
C23_EmptyInput ==
    (correction.ran /\ rawText = <<>>) =>
        /\ correction.result.original = <<>>
        /\ correction.result.corrected = <<>>
        /\ correction.result.changes = <<>>

\* applyCorrections was applied to the empty string.
C23_Witness == correction.ran /\ rawText = <<>>

\* "um so I think gonna work" and the text the claim describes for it
FillerExample == <<"u", "m", " ", "s", "o", " ", "I", " ", "t", "h", "i", "n", "k", " ", "g", "o", "n", "n", "a", " ", "w", "o", "r", "k">>
FillerExampleCorrected == <<"S", "o", " ", "I", " ", "t", "h", "i", "n", "k", " ", "g", "o", "i", "n", "g", " ", "t", "o", " ", "w", "o", "r", "k", ".">>

\* C24: for the input "um so I think gonna work" the corrected text has the
\* filler removed, "gonna" expanded to "going to", a capitalized sentence
\* start and a final period; and a non-empty corrected text never begins
\* with a lowercase letter.
C24_CapitalizedStart ==
    correction.ran =>
        /\ rawText = FillerExample
              => correction.result.corrected = FillerExampleCorrected
        /\ correction.result.corrected # <<>>
              => ~IsLower(correction.result.corrected[1])

\* Step 7, from `before` to `after`, appended a period and recorded one
\* punctuation Change for it.
PeriodAppended(before, after) ==
    /\ after.text = Trim(before.text) \o <<".">>
    /\ Len(after.changes) = Len(before.changes) + 1
    /\ after.changes[Len(after.changes)].type = "punctuation"

TerminalPunctuationRule(before, after) ==
    IF Trim(before.text) # <<>> /\ ~EndsSentence(Trim(before.text))
    THEN PeriodAppended(before, after)
    ELSE after = before

\* C25: the corrected text is empty or ends with one of . ! ?; and step 7
\* appends a period and records one punctuation Change exactly when the
\* trimmed text that reaches it is non-empty and does not end in one of them
\* (otherwise it leaves text and changes as they are).
C25_TerminalPunctuation ==
    correction.ran =>
        /\ \/ correction.result.corrected = <<>>
           \/ EndsSentence(correction.result.corrected)
        /\ TerminalPunctuationRule(AfterStep(rawText, 6), AfterStep(rawText, 7))

\* Change c was applied at the place of the original text o that its position
\* names: a filler match, a run of whitespace, the whitespace before a trigger
\* word, the start of a long segment, the letter that was capitalized (or the
\* period before it), the end of the text.
AppliedAt(o, c) ==
    LET i == c.position + 1 IN
      CASE c.type = "filler" ->
             \E k \in 1..Len(FILLER_PATTERNS) : FillerLen(o, i, FILLER_PATTERNS[k]) > 0
        [] c.type = "spacing" -> IsSpaceAt(o, i) /\ IsSpaceAt(o, i + 1)
        [] c.type = "boundary" /\ c.description[1] = "Added period before " ->
             \E k \in 1..Len(BOUNDARY_TRIGGERS) :
                 TriggerLen(o, i, BOUNDARY_TRIGGERS[k]) > 0
        [] c.type = "boundary" /\ c.description[1] # "Added period before " ->
             /\ i = 1 \/ (i - 1 \in 1..Len(o) /\ o[i - 1] \in SentenceEnd)
             /\ RunLen(o, i, WordChars \cup Whitespace \cup {",", ";", ":"}) > LongSegment
        [] c.type = "casing" /\ c.description[1] = "Capitalized after period" ->
             /\ i \in 1..Len(o)
             /\ \/ IsLower(o[i]) /\ IsSpaceAt(o, i - 1)
                \/ o[i] = "." /\ IsSpaceAt(o, i + 1)
        [] c.type = "casing" /\ c.description[1] # "Capitalized after period" ->
             i \in 1..Len(o) /\ IsLower(o[i])
        [] c.type = "punctuation" ->
             c.position \in Len(TrimEnd(o))..Len(o)

\* C26: the position of every Change is the character offset, in the
\* original input, of the place where the change applied.
C26_PositionsInOriginal ==
    correction.ran =>
        \A k \in 1..Len(correction.result.changes) :
            AppliedAt(rawText, correction.result.changes[k])

\* The step from `before` to `after` recorded what it rewrote.
RewriteRecorded(before, after) ==
    after.text # before.text =>
        /\ Len(after.changes) > Len(before.changes)
        /\ SubSeq(after.changes, 1, Len(before.changes)) = before.changes

\* C27: whenever artifact normalization (step 8) rewrites the text, the
\* changes list gets an entry for the rewrite, after the entries of the
\* earlier steps.
C27_ArtifactRewriteRecorded ==
    correction.ran => RewriteRecorded(AfterStep(rawText, 7), AfterStep(rawText, 8))

\* The occurrences <<k, i>> of trigger k between whitespace in s, i being the
\* index of the whitespace before it.
Occurrences(s) ==
    {o \in (1..Len(BOUNDARY_TRIGGERS)) \X (1..Len(s)) :
        TriggerLen(s, o[2], BOUNDARY_TRIGGERS[o[1]]) > 0}

\* The character before the occurrence is none of . ! ? , ; :
Unpunctuated(s, o) == o[2] >= 2 /\ s[o[2] - 1] \notin ClausePunctuation

\* The occurrence o of s made into a new sentence: the character before it,
\* a period, and the word with its first letter capitalized.
AsSentence(s, o) ==
    <<s[o[2] - 1], ".", " ", toUpperCase(s[o[2] + 1])>>
    \o SubSeq(s, o[2] + 2, o[2] + Len(BOUNDARY_TRIGGERS[o[1]])) \o <<" ">>

Holds(out, sentence) ==
    \E j \in 1..(Len(out) - Len(sentence) + 1) :
        SubSeq(out, j, j + Len(sentence) - 1) = sentence

BoundaryChange(c) == c.type = "boundary" /\ c.description[1] = "Added period before "

BoundaryRule(before, after, hits) ==
    /\ \A o \in hits : Holds(after.text, AsSentence(before.text, o))
    /\ Len(SelectSeq(after.changes, BoundaryChange)) = Cardinality(hits)
    /\ hits = {} => after = before

TriggersHandled(before) ==
    BoundaryRule(before, applyTriggers(before, 1),
                 {o \in Occurrences(before.text) : Unpunctuated(before.text, o)})

\* C30: for every occurrence of a trigger word or phrase between whitespace
\* in the text reaching step 3, a period is inserted before it, the word is
\* capitalized and one boundary Change is recorded when the character before
\* it is none of . ! ? , ; : - and nothing is changed or recorded for the
\* occurrences where it is one of them.
C30_BoundaryPerOccurrence ==
    correction.ran => TriggersHandled(AfterStep(rawText, 2))

\* The transcribe message of chunk c is posted in this step.
PostedNow(c) == chunks[c].fate = "decoding" /\ chunks'[c].fate = "posted"
\* No transcribe message was posted for chunk c so far.
NotYetPosted(c) == chunks[c].fate \in {"notReady", "decoding", "failed"}

\* C28: in the streaming hook the transcribe messages are posted in the
\* order in which their chunks were flushed: when the message of a chunk is
\* posted, no message of a chunk flushed after it has been posted before.
C28_Step ==
    variant = "stream" =>
        \A c \in ChunkIds :
            PostedNow(c) => \A d \in ChunkIds : d > c => NotYetPosted(d)
C28_PostedInFlushOrder == [][C28_Step]_vars

\* A frame event of the script processor happens in this step.
FrameEvent == frameCount' = frameCount + 1

\* The frames captured so far, in order.
Captured(n) == [i \in 1..n |-> i]

\* C29: in the streaming hook a frame event appends the frame and, when the
\* buffer then holds at least sampleRate x 4 samples, hands the whole buffer
\* to normalization as one chunk and empties it; so after the event the
\* buffer holds fewer samples than that, every chunk that is not the final
\* one of a recording holds at least that many, and the chunks followed by
\* the buffer are the captured frames in order, none lost or duplicated.
C29_Step ==
    variant = "stream" =>
        /\ FrameEvent =>
              \E s \in SessionIds :
                LET newBuffer == Append(audioBufferRef, frameCount + 1)
                    threshold == Threshold(sessions[s].rate)
                IN /\ sessions[s].phase = "live"
                   /\ IF Samples(newBuffer) >= threshold
                      THEN /\ HandedOff
                           /\ NewChunk.audio = newBuffer
                           /\ NewChunk.session = s
                           /\ audioBufferRef' = <<>>
                      ELSE /\ chunks' = chunks
                           /\ audioBufferRef' = newBuffer
                   /\ Samples(audioBufferRef') < threshold
        /\ (HandedOff /\ ~NewChunk.final) =>
              Samples(NewChunk.audio) >= Threshold(sessions[NewChunk.session].rate)
        /\ Concat([c \in DOMAIN chunks' |-> chunks'[c].audio]) \o audioBufferRef'
              = Captured(frameCount')
C29_BufferingPolicy == [][C29_Step]_vars

\* Two adjacent words of s, separated by whitespace only, that are the same
\* word when case is ignored.
AdjacentRepeat(s) ==
    \E i \in 1..Len(s) :
        /\ IsWordAt(s, i) /\ ~IsWordAt(s, i - 1)
        /\ \E w \in 1..Len(s), sp \in 1..Len(s) :
              /\ i + w + sp + w - 1 <= Len(s)
              /\ \A k \in 0..(w - 1) :
                    /\ IsWordAt(s, i + k)
                    /\ toLowerCase(s[i + w + sp + k]) = toLowerCase(s[i + k])
              /\ \A k \in 0..(sp - 1) : IsSpaceAt(s, i + w + k)
              /\ ~IsWordAt(s, i + w + sp + w)

\* C31: artifact normalization collapses every run of immediately repeated
\* identical words to one occurrence: the corrected text holds no two
\* adjacent identical words.
C31_NoAdjacentRepeats ==
    correction.ran => ~AdjacentRepeat(correction.result.corrected)

\* The words of s: its maximal runs of word characters.
Words(s) ==
    {SubSeq(s, i, i + RunLen(s, i, WordChars) - 1) :
        i \in {j \in 1..Len(s) : IsWordAt(s, j) /\ ~IsWordAt(s, j - 1)}}

\* um, umm, ..., uh, er, ah and their like, in either case
Hesitation(w) ==
    /\ Len(w) >= 2
    /\ <<toLowerCase(w[1]), toLowerCase(w[2])>>
           \in {<<"u", "m">>, <<"u", "h">>, <<"e", "r">>, <<"a", "h">>}
    /\ \A k \in 3..Len(w) : toLowerCase(w[k]) = toLowerCase(w[2])

\* The phrases of the catalogue (the alternatives that end in whitespace).
CataloguePhrases ==
    UNION {{FILLER_PATTERNS[p][a].lit :
               a \in {b \in 1..Len(FILLER_PATTERNS[p]) : FILLER_PATTERNS[p][b].space}} :
           p \in 1..Len(FILLER_PATTERNS)}

\* w is a filler, or a word of a filler phrase
FillerWord(w) ==
    \/ Hesitation(w)
    \/ \E f \in CataloguePhrases : [k \in 1..Len(w) |-> toLowerCase(w[k])] \in Words(f)

\* C32: filler removal deletes whole fillers only: every word of the input
\* that is not a filler (a word that merely begins with um, uh, er or ah
\* included) is a word of the text that step 1 leaves, with all its letters.
C32_NonFillerWordsKept ==
    correction.ran =>
        \A w \in Words(rawText) :
            ~FillerWord(w) => w \in Words(AfterStep(rawText, 1).text)

\* The transcribe message of chunk c has been posted.
WasPosted(c) ==
    chunks[c].fate \in {"posted", "answered", "completed", "silent", "errored",
                        "cleared", "lost"}

\* Chunk c was handed off by a capture callback of its session (the blob
\* hook's onstop, the streaming hook's onaudioprocess), not by stopRecording.
FromCallback(c) == variant = "blob" \/ ~chunks[c].final

\* C33 as stated: a transcribe message is posted for the audio of a recording
\* only if isModelLoaded was true in the render from which startRecording was
\* invoked.
C33_PostedOnlyIfLoadedAtStart ==
    \A c \in ChunkIds : WasPosted(c) => chunks[c].startLoaded

\* C33: a session started while the model is loading posts nothing from its
\* capture callbacks (onstop, onaudioprocess), even when ready arrives before
\* stopRecording, and no transcribe message is posted before ready was
\* observed.
C33_CallbacksPostOnlyIfLoadedAtStart ==
    \A c \in ChunkIds :
        WasPosted(c) =>
            /\ isModelLoaded
            /\ FromCallback(c) => chunks[c].startLoaded

C33_Witness ==
    \E c \in ChunkIds :
        /\ FromCallback(c)
        /\ ~chunks[c].startLoaded
        /\ ~chunks[c].loading
        /\ isModelLoaded
        /\ chunks[c].fate = "notReady"

\* Nothing the user typed is in the input, and no result was cleared.
Untouched ==
    /\ \A i \in 1..Len(inputText) : \A t \in TypedTexts : inputText[i] # t[1]
    /\ \A c \in ChunkIds : chunks[c].fate # "cleared"

\* C34: under a DictationProcessor on top of the accumulating transcript (the
\* blob hook), with no clear and no user edit, once the results received
\* have been rendered the input shows them as the transcript has them:
\* after r1 then r2 the input shows "r1 r2", every text once.
C34_InputShowsEachResultOnce ==
    (/\ variant = "blob"
     /\ wiring # "none"
     /\ mounted
     /\ rendered = transcription
     /\ Untouched)
    => inputText = transcription

\* A chunk is dispatched in this step: processAudio passes its guard (blob),
\* normalizeAndSendAudio posts the transcribe message (stream).
Dispatched ==
    IF variant = "blob" THEN HandedOff /\ NewChunk.fate = "decoding"
    ELSE \E c \in ChunkIds : PostedNow(c)

\* No request is under way in the hook or in the worker.
Idle == \A c \in ChunkIds : chunks[c].fate \notin {"decoding", "posted", "answered"}

C35_Step == (~isTranscribing /\ isTranscribing') => Dispatched

\* The worker left a transcribe request without an answer.
Unanswered == \E c \in ChunkIds : chunks[c].fate = "dropped"

\* C35: when the worker answers every transcribe request, isTranscribing
\* becomes false again after the last chunk was dispatched (while the
\* component is mounted), and once false it stays false until another chunk
\* is dispatched: it is never stuck true.
C35_IndicatorNeverStuck ==
    /\ [][C35_Step]_vars
    /\ (mounted /\ isTranscribing)
          ~> (~mounted \/ Unanswered \/ (~isTranscribing /\ Idle))

\* Every chunk dispatched has been answered and the indicator is off again.
C35_Witness ==
    /\ mounted /\ ~isTranscribing /\ Idle /\ ~Unanswered
    /\ \E c, d \in ChunkIds :
          /\ c # d
          /\ chunks[c].fate \in {"completed", "silent"}
          /\ chunks[d].fate = "errored"

\* C37: in every reachable state of the hook isModelLoading and isModelLoaded
\* are not both true, and isModelLoaded implies progress = 100.
C37_LoadedMeansDone ==
    /\ ~(isModelLoading /\ isModelLoaded)
    /\ isModelLoaded => progress = 100

\* ready was handled after a progress report, and the hook went on to
\* transcribe.
C37_Witness ==
    /\ isModelLoaded /\ ~isModelLoading /\ progress = 100
    /\ \E c \in ChunkIds : chunks[c].fate \in {"completed", "errored"}

\* C36: the pipeline is constructed at most once per worker: whenever a
\* transcribe message is with the worker, the construction that configure
\* began has finished and PipelineSingleton.instance is set, so the
\* getInstance of the transcribe branch constructs nothing.
C36_PipelineConstructedOnce ==
    \A c \in ChunkIds : chunks[c].fate = "posted" => pipelineState = "loaded"

\* getInstance has been called for configure and for two transcribe
\* messages.
C36_Witness ==
    /\ pipelineState = "loaded"
    /\ \E c, d \in ChunkIds :
          /\ chunks[c].fate = "posted"
          /\ chunks[d].fate \in {"answered", "completed", "silent", "errored"}

\* resetTranscription acts in this step and finds something to clear.
ResetClears == Resets /\ (transcription # <<>> \/ error # Null)

\* What resetTranscription leaves alone: the recording and busy flags, the
\* model flags and the progress, the microphone stream, the capture buffer
\* and the recorded parts, the worker and every request under way.
ResetFrame ==
    /\ UNCHANGED <<isRecording, isTranscribing, isModelLoading, isModelLoaded,
                   progress, audioStream, refVars, workerVars, sessions>>
    /\ \A c \in ChunkIds :
          chunks[c].fate \in {"decoding", "posted", "answered"} => chunks'[c] = chunks[c]

\* The complete of a request handled when the transcript is empty leaves its
\* text as the transcript.
OntoEmptied ==
    (Handling("complete") /\ transcription = <<>> /\ ExtractText(Head(fromWorker).out)[1])
    => transcription' = ExtractText(Head(fromWorker).out)[2]

\* C38: resetTranscription clears only the transcript and the error (and the
\* logs and audio statistics): recording and transcribing flags, the model
\* lifecycle state, the microphone stream, the capture buffer and the
\* outstanding requests are unchanged, and the complete of a request
\* dispatched before the reset is appended to the emptied transcript.
C38_Step ==
    /\ ResetClears => (ResetFrame /\ LifecycleState' = LifecycleState)
    /\ OntoEmptied
C38_ResetClearsOnlyTranscript == [][C38_Step]_vars

\* A call of stopRecording would act: the test at its head passes.  (A call
\* whose test fails returns at once and is no step.)
StopActs == ENABLED StopRecordingBlob \/ ENABLED StopRecordingStream

\* A recording session is active: the session the hook's handle refers to
\* was granted the microphone and its recorder or processor is running.
SessionActive == handle # 0 /\ sessions[handle].phase = "live"

\* mediaStreamRef.current of the streaming hook holds a stream whose setup
\* threw after the grant: there is no processor and nothing is recorded.
HoldsOpenStream ==
    variant = "stream" /\ handle # 0 /\ sessions[handle].phase = "open"

\* The final chunks of session s: what its stop handed to processAudio /
\* normalizeAndSendAudio.
FinalChunks(s) == {c \in ChunkIds : chunks[c].session = s /\ chunks[c].final}

\* stopRecording acts on session s in this step.
StopsSession(s) ==
    /\ handle = s
    /\ sessions[s].phase \in {"live", "open"}
    /\ sessions'[s].phase \in {"stopping", "released"}

\* The final audio of session s is handed off in this step, to a call whose
\* guard read `loaded`; it is dispatched when that guard passes.
FinalHandOff(s, loaded) ==
    /\ HandedOff
    /\ NewChunk.final
    /\ NewChunk.session = s
    /\ NewChunk.fate = IF GuardPasses(loaded) THEN "decoding" ELSE "notReady"
FinalDispatched(s) ==
    /\ HandedOff
    /\ NewChunk.final
    /\ NewChunk.session = s
    /\ NewChunk.fate = "decoding"

\* C39 as claimed: stopRecording acts only when a recording session is active,
\* and the stop of a session dispatches its final audio, once.
C39_Step_Original ==
    \A s \in SessionIds :
        /\ (variant = "stream" /\ StopsSession(s)) => FinalDispatched(s)
        /\ BlobStops(s) => FinalDispatched(s)
C39_StopDispatchesOnce ==
    /\ [](StopActs => SessionActive)
    /\ [][C39_Step_Original]_vars
    /\ [](\A s \in SessionIds : Cardinality(FinalChunks(s)) <= 1)

C39_Step ==
    \A s \in SessionIds :
        /\ StopsSession(s) =>
              /\ ~SessionActive' /\ ~HoldsOpenStream'
              /\ ~isRecording'
              /\ IF variant = "stream" /\ audioBufferRef # <<>>
                 THEN FinalHandOff(s, isModelLoaded)
                 ELSE ~HandedOff
        /\ BlobStops(s) => FinalHandOff(s, sessions[s].cbLoaded)

\* C39 amended: stopRecording acts only when the handle refers to a recording
\* session or, in the streaming hook, to a stream left open by a failed
\* setup, which it releases; after it acted a second call does nothing; the
\* final audio of a session is handed off at most once (always by the blob
\* hook's onstop, by the streaming hook only when the buffer is not empty)
\* and is dispatched only when the guard of that hand-off passes.
C39_StopIdempotent ==
    /\ [](StopActs => (SessionActive \/ HoldsOpenStream))
    /\ []((StopActs /\ variant = "blob") => isRecording)
    /\ [][C39_Step]_vars
    /\ [](\A s \in SessionIds : Cardinality(FinalChunks(s)) <= 1)

\* A session was stopped and its final audio handed off; a further
\* stopRecording does nothing.
C39_Witness ==
    /\ ~StopActs
    /\ \E s \in SessionIds :
          /\ sessions[s].phase = "released"
          /\ \E c \in FinalChunks(s) : WasPosted(c)

====
